---- MODULE Spec2Model ----
(***************************************************************************)
(* A model of dlorenc/superwheelie: pkg/config (version specifiers,        *)
(* configuration, claim files) and pkg/builder (override resolution and    *)
(* the version x runtime build matrix).                                    *)
(*                                                                         *)
(* Go strings whose characters the code inspects (versions, specifiers,    *)
(* runtime identifiers, package names, wheel file names) are sequences of  *)
(* one-character strings.  Strings the code only copies or compares as a   *)
(* whole (dependency names, patch names, env keys and values, scripts,     *)
(* agent names) are TLA+ strings.                                          *)
(***************************************************************************)
EXTENDS Integers, Sequences, FiniteSets, TLC

VARIABLES
    \* --- the package configuration under resolution / build
    cfg,            \* config.Config
    \* --- Builder.getEffectiveConfig called on its own
    rpc,            \* "idle" | "resolved"
    rVersion,       \* the version last resolved
    eff,            \* the effectiveConfig last returned
    \* --- Builder.BuildAll / Builder.Build
    pythonVersions, \* the runtimes requested
    pc,             \* position of the orchestrator
    vi,             \* index into cfg.Versions (BuildAll's loop)
    pi,             \* index into pythonVersions (Build's loop)
    pidx,           \* index into effectiveCfg.Patches (ApplyPatches' loop)
    effectiveCfg,   \* Build's effectiveCfg
    curResults,     \* Build's results slice
    results,        \* BuildAll's results map
    dist,           \* file names in b.DistDir
    cmdLog,         \* every subprocess started, in order
    elapsed,        \* hours the running build command has been running
    \* --- claim files written by concurrent agents
    claimsDir,      \* whether the claims directory exists
    claimFile,      \* content of claims/{package}.yaml
    apc,            \* agent -> position inside SaveClaim
    aret,           \* agent -> what SaveClaim returned
    \* --- one call of a function of pkg/config or pkg/builder
    fn,             \* name of the function called, "idle" before the call
    args,           \* its arguments
    ret,            \* what it returned
    \* --- the skips file of one package
    skipsFile,      \* content of skips/{package}.yaml, None when absent
    lastSaved,      \* the list given to the latest SaveSkips, None before
    loaded,         \* what LoadSkips returned since the latest SaveSkips
    nSaves,         \* number of SaveSkips calls so far
    \* --- the claims branch under the garbage collector
    leases,         \* package -> the lease at claims/{package}.yaml
    queue,          \* the packages in queue.txt
    committed,      \* the packages with a configuration under packages/
    clock,          \* the current time, in seconds
    \* --- the memory behind the configuration's slices and maps
    heap,           \* address -> the backing array or map stored there
    held            \* the effective configurations handed out so far

resolveVars == <<rpc, rVersion, eff>>
buildVars == <<pythonVersions, pc, vi, pi, pidx, effectiveCfg, curResults,
               results, dist, cmdLog, elapsed>>
claimVars == <<claimsDir, claimFile, apc, aret>>
callVars == <<fn, args, ret>>
skipVars == <<skipsFile, lastSaved, loaded, nSaves>>
gcVars == <<leases, queue, committed, clock>>
memVars == <<heap, held>>
vars == <<cfg, resolveVars, buildVars, claimVars, callVars, skipVars, gcVars,
          memVars>>

None == "<none>"

-----------------------------------------------------------------------------
(* Characters and the Go string functions the code uses.                   *)

\* The characters of the model in byte order.
AsciiOrder ==
    << " ", "!", "*", "+", ",", "-", ".",
       "0", "1", "2", "3", "4", "5", "6", "7", "8", "9",
       "<", "=", ">",
       "A", "B", "C", "D", "E", "F", "G", "H", "I", "J", "K", "L", "M",
       "N", "O", "P", "Q", "R", "S", "T", "U", "V", "W", "X", "Y", "Z",
       "_",
       "a", "b", "c", "d", "e", "f", "g", "h", "i", "j", "k", "l", "m",
       "n", "o", "p", "q", "r", "s", "t", "u", "v", "w", "x", "y", "z",
       "~" >>

Ord(c) == CHOOSE i \in 1..Len(AsciiOrder) : AsciiOrder[i] = c

DigitChars == {"0", "1", "2", "3", "4", "5", "6", "7", "8", "9"}
LetterChars == {AsciiOrder[i] : i \in 21..46} \cup {AsciiOrder[i] : i \in 48..73}
SpaceChars == {" "}

DigitVal(c) == Ord(c) - Ord("0")

\* strings.HasPrefix
HasPrefix(s, p) == Len(p) <= Len(s) /\ SubSeq(s, 1, Len(p)) = p

\* strings.HasSuffix
HasSuffix(s, p) == Len(p) <= Len(s) /\ SubSeq(s, Len(s) - Len(p) + 1, Len(s)) = p

\* strings.Contains
Contains(s, sub) ==
    \E i \in 0..(Len(s) - Len(sub)) : SubSeq(s, i + 1, i + Len(sub)) = sub

\* strings.TrimSpace
RECURSIVE TrimLeft(_)
TrimLeft(s) ==
    IF s # <<>> /\ Head(s) \in SpaceChars THEN TrimLeft(Tail(s)) ELSE s

RECURSIVE TrimRight(_)
TrimRight(s) ==
    IF s # <<>> /\ s[Len(s)] \in SpaceChars
    THEN TrimRight(SubSeq(s, 1, Len(s) - 1))
    ELSE s

TrimSpace(s) == TrimRight(TrimLeft(s))

\* strings.Split(s, sep) for a one-character sep: always at least one part
RECURSIVE SplitAcc(_, _, _)
SplitAcc(s, sep, cur) ==
    IF s = <<>> THEN <<cur>>
    ELSE IF Head(s) = sep THEN <<cur>> \o SplitAcc(Tail(s), sep, <<>>)
    ELSE SplitAcc(Tail(s), sep, Append(cur, Head(s)))

Split(s, sep) == SplitAcc(s, sep, <<>>)

\* strings.Join(parts, sep)
RECURSIVE Join(_, _)
Join(parts, sep) ==
    IF parts = <<>> THEN <<>>
    ELSE IF Len(parts) = 1 THEN parts[1]
    ELSE parts[1] \o sep \o Join(Tail(parts), sep)

\* strings.ReplaceAll(s, old, new) for a one-character old
RECURSIVE ReplaceAll(_, _, _)
ReplaceAll(s, old, new) ==
    IF s = <<>> THEN <<>>
    ELSE IF Head(s) = old THEN new \o ReplaceAll(Tail(s), old, new)
    ELSE <<Head(s)>> \o ReplaceAll(Tail(s), old, new)

\* strings.Replace(s, old, new, 1) for a one-character old
RECURSIVE ReplaceFirst(_, _, _)
ReplaceFirst(s, old, new) ==
    IF s = <<>> THEN <<>>
    ELSE IF Head(s) = old THEN new \o Tail(s)
    ELSE <<Head(s)>> \o ReplaceFirst(Tail(s), old, new)

\* Go's < on strings: byte-wise lexicographic order
RECURSIVE StrLess(_, _)
StrLess(a, b) ==
    IF b = <<>> THEN FALSE
    ELSE IF a = <<>> THEN TRUE
    ELSE IF Head(a) = Head(b) THEN StrLess(Tail(a), Tail(b))
    ELSE Ord(Head(a)) < Ord(Head(b))

-----------------------------------------------------------------------------
(* pkg/config: version specifiers (validate.go)                            *)

\* fmt.Sscanf(part, "%d", &val) into a zero-initialised int: leading spaces
\* are skipped, one sign is accepted, then the longest run of digits and
\* underscores is the token; a token strconv.ParseInt rejects (no digit, or an
\* underscore in it) leaves the value 0.  Tokens of the model are far shorter
\* than the 19 digits at which ParseInt reports a range error.
RECURSIVE NumRun(_)
NumRun(s) ==
    IF s # <<>> /\ Head(s) \in DigitChars \cup {"_"}
    THEN <<Head(s)>> \o NumRun(Tail(s))
    ELSE <<>>

RECURSIVE DecimalValue(_, _)
DecimalValue(tok, acc) ==
    IF tok = <<>> THEN acc
    ELSE DecimalValue(Tail(tok), 10 * acc + DigitVal(Head(tok)))

Sscanf(part) ==
    LET t == TrimLeft(part)
        neg == t # <<>> /\ Head(t) = "-"
        signed == t # <<>> /\ Head(t) \in {"+", "-"}
        tok == NumRun(IF signed THEN Tail(t) ELSE t)
    IN IF tok = <<>> \/ \E i \in 1..Len(tok) : tok[i] = "_" THEN 0
       ELSE IF neg THEN 0 - DecimalValue(tok, 0)
       ELSE DecimalValue(tok, 0)

\* compareVersions: -1, 0 or 1
RECURSIVE compareFrom(_, _, _, _)
compareFrom(aParts, bParts, i, maxLen) ==
    IF i > maxLen THEN 0
    ELSE LET aVal == IF i <= Len(aParts) THEN Sscanf(aParts[i]) ELSE 0
             bVal == IF i <= Len(bParts) THEN Sscanf(bParts[i]) ELSE 0
         IN IF aVal < bVal THEN -1
            ELSE IF aVal > bVal THEN 1
            ELSE compareFrom(aParts, bParts, i + 1, maxLen)

\* A comparison that stops at the end of the shorter version.
MutCompareVersionsShort(a, b) ==
    LET aParts == Split(a, ".")
        bParts == Split(b, ".")
        minLen == IF Len(bParts) < Len(aParts) THEN Len(bParts) ELSE Len(aParts)
    IN compareFrom(aParts, bParts, 1, minLen)

\* A comparison over the segments of its first argument only.
MutCompareVersionsOwnLength(a, b) ==
    LET aParts == Split(a, ".")
        bParts == Split(b, ".")
    IN compareFrom(aParts, bParts, 1, Len(aParts))

compareVersions(a, b) ==
    LET aParts == Split(a, ".")
        bParts == Split(b, ".")
        maxLen == IF Len(bParts) > Len(aParts) THEN Len(bParts) ELSE Len(aParts)
    IN compareFrom(aParts, bParts, 1, maxLen)

\* The prefixes matchSingleSpec tries, in its order.
SpecOperators ==
    << <<"=", "=">>, <<"!", "=">>, <<"<", "=">>, <<">", "=">>,
       <<"<">>, <<">">>, <<"~", "=">> >>

\* The least element of a non-empty set of integers.
FirstOf(S) == CHOOSE i \in S : \A j \in S : i <= j

\* A Go (bool, error) result.
Res(m, e) == [matches |-> m, err |-> e]

\* matchSingleSpec
matchSingleSpec(version, spec0) ==
    LET spec == TrimSpace(spec0)
        found == {i \in 1..Len(SpecOperators) : HasPrefix(spec, SpecOperators[i])}
    IN IF found = {} THEN Res(FALSE, TRUE)
       ELSE
         LET k == FirstOf(found)
             op == SpecOperators[k]
             specVer == TrimSpace(SubSeq(spec, Len(op) + 1, Len(spec)))
             cmp == compareVersions(version, specVer)
         IN CASE op = <<"=", "=">> -> Res(cmp = 0, FALSE)
              [] op = <<"!", "=">> -> Res(cmp # 0, FALSE)
              [] op = <<"<">> -> Res(cmp < 0, FALSE)
              [] op = <<"<", "=">> -> Res(cmp <= 0, FALSE)
              [] op = <<">">> -> Res(cmp > 0, FALSE)
              [] op = <<">", "=">> -> Res(cmp >= 0, FALSE)
              [] op = <<"~", "=">> ->
                   IF cmp < 0 THEN Res(FALSE, FALSE)
                   ELSE LET parts == Split(specVer, ".")
                        IN IF Len(parts) > 1
                           THEN Res(HasPrefix(version,
                                    Join(SubSeq(parts, 1, Len(parts) - 1), <<".">>)),
                                    FALSE)
                           ELSE Res(TRUE, FALSE)

\* A loop that returns true as soon as one clause matches.
MutMatchPartsAny(version, parts) ==
    Res(\E i \in 1..Len(parts) :
            matchSingleSpec(version, TrimSpace(parts[i])).matches, FALSE)

\* MatchesVersion: the clauses are tried left to right; the first clause that
\* fails to parse or does not match ends the loop.
RECURSIVE matchParts(_, _)
matchParts(version, parts) ==
    IF parts = <<>> THEN Res(TRUE, FALSE)
    ELSE LET r == matchSingleSpec(version, TrimSpace(Head(parts)))
         IN IF r.err THEN Res(FALSE, TRUE)
            ELSE IF ~r.matches THEN Res(FALSE, FALSE)
            ELSE matchParts(version, Tail(parts))

MatchesVersion(version0, specifier0) ==
    matchParts(TrimSpace(version0), Split(TrimSpace(specifier0), ","))

\* pep440Pattern: ^([<>=!~]+\s*[\d\w.*]+)(,\s*[<>=!~]+\s*[\d\w.*]+)*$
\* The character classes are disjoint, so the expression is this automaton:
\*   1 clause start (operator expected)   2 inside the operator
\*   3 spaces after the operator          4 inside the version (accepting)
\*   5 after a comma                      0 rejected
PatOpChars == {"<", ">", "=", "!", "~"}
PatWordChars == DigitChars \cup LetterChars \cup {"_", ".", "*"}

pep440Step(q, c) ==
    CASE q = 1 -> IF c \in PatOpChars THEN 2 ELSE 0
      [] q = 2 -> IF c \in PatOpChars THEN 2
                  ELSE IF c \in SpaceChars THEN 3
                  ELSE IF c \in PatWordChars THEN 4 ELSE 0
      [] q = 3 -> IF c \in SpaceChars THEN 3
                  ELSE IF c \in PatWordChars THEN 4 ELSE 0
      [] q = 4 -> IF c \in PatWordChars THEN 4
                  ELSE IF c = "," THEN 5 ELSE 0
      [] q = 5 -> IF c \in SpaceChars THEN 5
                  ELSE IF c \in PatOpChars THEN 2 ELSE 0
      [] OTHER -> 0

RECURSIVE pep440Run(_, _)
pep440Run(q, s) ==
    IF s = <<>> THEN q ELSE pep440Run(pep440Step(q, Head(s)), Tail(s))

pep440Pattern(s) == pep440Run(1, s) = 4

\* isValidPEP440
isValidPEP440(spec0) ==
    LET spec == TrimSpace(spec0)
    IN IF spec = <<>> THEN FALSE ELSE pep440Pattern(spec)

\* ValidateConfig: the error it returns, or None
RECURSIVE validateVersions(_, _)
validateVersions(versions, seen) ==
    IF versions = <<>> THEN None
    ELSE LET v == Head(versions)
         IN IF v.Tag = <<>> THEN "tag is required"
            ELSE IF v.Version = <<>> THEN "version is required"
            ELSE IF v.Version \in seen THEN "duplicate version"
            ELSE validateVersions(Tail(versions), seen \cup {v.Version})

RECURSIVE validateOverrides(_)
validateOverrides(overrides) ==
    IF overrides = <<>> THEN None
    ELSE LET o == Head(overrides)
         IN IF o.Match = <<>> THEN "match is required"
            ELSE IF ~isValidPEP440(o.Match) THEN "invalid PEP 440 specifier"
            ELSE validateOverrides(Tail(overrides))

ValidateConfig(c) ==
    IF c.Repo = "" THEN "repo is required"
    ELSE IF Len(c.Versions) = 0 THEN "at least one version is required"
    ELSE IF validateVersions(c.Versions, {}) # None
         THEN validateVersions(c.Versions, {})
    ELSE validateOverrides(c.Overrides)

-----------------------------------------------------------------------------
(* pkg/builder: override resolution (builder.go)                           *)

\* A Go map[string]string is a function from its keys.
EmptyMap == [k \in {} |-> ""]

\* The start of getEffectiveConfig: copies of the base fields.
baseEffective(c) ==
    [SystemDeps |-> <<>> \o c.SystemDeps,
     Env |-> [k \in DOMAIN c.Env |-> c.Env[k]],
     Patches |-> <<>> \o c.Patches,
     Script |-> c.Script]

\* "Merge lists": append(cfg.X, override.X...)
MutMergeListsPrepend(base, extra) == extra \o base
mergeLists(base, extra) == base \o extra

\* "Merge env (override wins)": for k, v := range override.Env { cfg.Env[k] = v }
MutMergeEnvBaseWins(base, over) ==
    [k \in DOMAIN base \cup DOMAIN over |->
        IF k \in DOMAIN base THEN base[k] ELSE over[k]]
mergeEnv(base, over) ==
    [k \in DOMAIN base \cup DOMAIN over |->
        IF k \in DOMAIN over THEN over[k] ELSE base[k]]

\* "Replace script": if override.Script != "" { cfg.Script = override.Script }
MutReplaceScriptAlways(base, over) == over
replaceScript(base, over) == IF over # "" THEN over ELSE base

\* The body of the override loop for an override that matched.
applyOverride(e, o) ==
    [SystemDeps |-> mergeLists(e.SystemDeps, o.SystemDeps),
     Env |-> mergeEnv(e.Env, o.Env),
     Patches |-> mergeLists(e.Patches, o.Patches),
     Script |-> replaceScript(e.Script, o.Script)]

\* The override loop: an override whose specifier does not parse, or does not
\* match, is passed over; the first that matches is applied and ends the loop.
RECURSIVE MutOverrideLoopNoBreak(_, _, _)
MutOverrideLoopNoBreak(e, overrides, version) ==
    IF overrides = <<>> THEN e
    ELSE LET r == MatchesVersion(version, Head(overrides).Match)
         IN IF r.err \/ ~r.matches
            THEN MutOverrideLoopNoBreak(e, Tail(overrides), version)
            ELSE MutOverrideLoopNoBreak(applyOverride(e, Head(overrides)),
                                        Tail(overrides), version)

RECURSIVE overrideLoop(_, _, _)
overrideLoop(e, overrides, version) ==
    IF overrides = <<>> THEN e
    ELSE LET r == MatchesVersion(version, Head(overrides).Match)
         IN IF r.err \/ ~r.matches
            THEN overrideLoop(e, Tail(overrides), version)
            ELSE applyOverride(e, Head(overrides))

\* Builder.getEffectiveConfig
getEffectiveConfig(c, version) ==
    overrideLoop(baseEffective(c), c.Overrides, version)

-----------------------------------------------------------------------------
(* Configurations of the model.                                            *)

Ver090 == <<"0", ".", "9", ".", "0">>
Ver120 == <<"1", ".", "2", ".", "0">>
Ver180 == <<"1", ".", "8", ".", "0">>
Ver210 == <<"2", ".", "1", ".", "0">>

MatchGe20 == <<">", "=", "2", ".", "0">>
MatchLt15 == <<"<", "1", ".", "5">>
MatchGe10 == <<">", "=", "1", ".", "0">>
MatchRange == <<">", "=", "1", ".", "0", ",", " ", "<", "2", ".", "0">>
MatchBare == <<"2", ".", "0">>

\* The overrides of TestGetEffectiveConfig, one that overlaps them, one with
\* two clauses, and one whose specifier has no operator.
OverrideNew ==
    [Match |-> MatchGe20, SystemDeps |-> <<"libfoo-new">>,
     Env |-> ("FOO" :> "baz") @@ ("NEW" :> "val"),
     Patches |-> <<"new.patch">>, Script |-> ""]
OverrideOld ==
    [Match |-> MatchLt15, SystemDeps |-> <<>>, Env |-> EmptyMap,
     Patches |-> <<>>, Script |-> "custom build"]
OverrideAny ==
    [Match |-> MatchGe10, SystemDeps |-> <<"libfoo", "libz">>,
     Env |-> ("CC" :> "clang"),
     Patches |-> <<"a.patch", "base.patch">>, Script |-> "other build"]
OverrideRange ==
    [Match |-> MatchRange, SystemDeps |-> <<"libmid">>,
     Env |-> ("FOO" :> "mid"),
     Patches |-> <<>>, Script |-> ""]
OverrideBare ==
    [Match |-> MatchBare, SystemDeps |-> <<"libbare">>,
     Env |-> ("BARE" :> "1"),
     Patches |-> <<"bare.patch">>, Script |-> "bare build"]

OverrideCands ==
    {OverrideNew, OverrideOld, OverrideAny, OverrideRange, OverrideBare}

\* The base of TestGetEffectiveConfig, and one with a script and two-entry lists.
BaseTest ==
    [SystemDeps |-> <<"libfoo">>,
     Env |-> ("FOO" :> "bar"),
     Patches |-> <<"base.patch">>, Script |-> ""]
BaseScript ==
    [SystemDeps |-> <<"libz", "libfoo">>,
     Env |-> ("FOO" :> "bar") @@ ("CC" :> "gcc"),
     Patches |-> <<"b.patch", "a.patch">>, Script |-> "base build"]
BaseEmpty ==
    [SystemDeps |-> <<>>, Env |-> EmptyMap, Patches |-> <<>>, Script |-> ""]

VersionsOf(vs) == [i \in 1..Len(vs) |-> [Tag |-> <<"v">> \o vs[i], Version |-> vs[i]]]

MkConfig(base, versions, overrides) ==
    [Repo |-> "https://github.com/test/pkg",
     Versions |-> VersionsOf(versions),
     SystemDeps |-> base.SystemDeps, Env |-> base.Env,
     Patches |-> base.Patches, Script |-> base.Script,
     Overrides |-> overrides]

MaxOverrides == 2

SeqsUpTo(S, n) == UNION {[1..k -> S] : k \in 0..n}

ResolveVersions == {Ver090, Ver120, Ver180, Ver210}

ResolveConfigs ==
    {MkConfig(b, <<Ver120, Ver210>>, ovs) :
        b \in {BaseTest, BaseScript}, ovs \in SeqsUpTo(OverrideCands, MaxOverrides)}

-----------------------------------------------------------------------------
(* Idle values of the parts a specification does not exercise.             *)

NoEffective == [SystemDeps |-> <<>>, Env |-> EmptyMap, Patches |-> <<>>, Script |-> ""]

ResolveIdle ==
    /\ rpc = "idle"
    /\ rVersion = <<>>
    /\ eff = NoEffective

BuildIdle ==
    /\ pythonVersions = <<>>
    /\ pc = "idle"
    /\ vi = 1
    /\ pi = 1
    /\ pidx = 1
    /\ effectiveCfg = NoEffective
    /\ curResults = <<>>
    /\ results = EmptyMap
    /\ dist = {}
    /\ cmdLog = <<>>
    /\ elapsed = 0

CallIdle ==
    /\ fn = "idle"
    /\ args = None
    /\ ret = None

SkipsIdle ==
    /\ skipsFile = None
    /\ lastSaved = None
    /\ loaded = None
    /\ nSaves = 0

GcIdle ==
    /\ leases = None
    /\ queue = {}
    /\ committed = {}
    /\ clock = 0

MemIdle ==
    /\ heap = <<>>
    /\ held = <<>>

ClaimIdle ==
    /\ claimsDir = FALSE
    /\ claimFile = None
    /\ apc = EmptyMap
    /\ aret = EmptyMap

-----------------------------------------------------------------------------
(* getEffectiveConfig called on its own, as TestGetEffectiveConfig does.   *)

InitResolve ==
    /\ cfg \in ResolveConfigs
    /\ ResolveIdle
    /\ BuildIdle
    /\ ClaimIdle
    /\ CallIdle
    /\ SkipsIdle
    /\ GcIdle
    /\ MemIdle

Resolve(version) ==
    /\ rpc' = "resolved"
    /\ rVersion' = version
    /\ eff' = getEffectiveConfig(cfg, version)
    /\ UNCHANGED <<cfg, gcVars, memVars, callVars, skipVars, buildVars, claimVars>>

NextResolve == \E version \in ResolveVersions : Resolve(version)

SpecResolve == InitResolve /\ [][NextResolve]_vars

-----------------------------------------------------------------------------
(* Properties of override resolution, under SpecResolve.                   *)

\* The overrides whose specifier the version satisfies.
MatchingOverrides(c, version) ==
    {i \in 1..Len(c.Overrides) :
        MatchesVersion(version, c.Overrides[i].Match).matches}

Resolved == rpc = "resolved"
Applies == Resolved /\ MatchingOverrides(cfg, rVersion) # {}
Applied == cfg.Overrides[FirstOf(MatchingOverrides(cfg, rVersion))]

\* C2: getEffectiveConfig applies at most one override, the first in list
\* order that the version satisfies; later overrides are ignored even when
\* they match too; with no matching override the effective systemDeps, env,
\* patches and script are the base configuration's.
C2_FirstMatchWins ==
    Resolved =>
        IF MatchingOverrides(cfg, rVersion) = {}
        THEN /\ eff.SystemDeps = cfg.SystemDeps
             /\ eff.Env = cfg.Env
             /\ eff.Patches = cfg.Patches
             /\ eff.Script = cfg.Script
        ELSE /\ eff.SystemDeps = cfg.SystemDeps \o Applied.SystemDeps
             /\ eff.Patches = cfg.Patches \o Applied.Patches
             /\ DOMAIN eff.Env = DOMAIN cfg.Env \cup DOMAIN Applied.Env
             /\ \A k \in DOMAIN eff.Env :
                    eff.Env[k] = IF k \in DOMAIN Applied.Env
                                 THEN Applied.Env[k] ELSE cfg.Env[k]
             /\ eff.Script = IF Applied.Script = ""
                             THEN cfg.Script ELSE Applied.Script

\* Two overrides match the resolved version and the later one would have
\* added entries of its own.
C2_Witness ==
    /\ Resolved
    /\ Cardinality(MatchingOverrides(cfg, rVersion)) >= 2
    /\ \E j \in MatchingOverrides(cfg, rVersion) :
          /\ j # FirstOf(MatchingOverrides(cfg, rVersion))
          /\ cfg.Overrides[j] # Applied
          /\ cfg.Overrides[j].SystemDeps # <<>>

\* C8: when an override applies, the effective systemDeps and patches are the
\* base list followed by the override's list: same order, nothing removed,
\* nothing de-duplicated.
ListIsBaseThenOverride(list, base, over) ==
    /\ Len(list) = Len(base) + Len(over)
    /\ \A i \in 1..Len(base) : list[i] = base[i]
    /\ \A j \in 1..Len(over) : list[Len(base) + j] = over[j]

C8_ListsAppend ==
    Applies =>
        /\ ListIsBaseThenOverride(eff.SystemDeps, cfg.SystemDeps, Applied.SystemDeps)
        /\ ListIsBaseThenOverride(eff.Patches, cfg.Patches, Applied.Patches)

\* An override applied whose list repeats an entry of a two-entry base list.
C8_Witness ==
    /\ Applies
    /\ Len(cfg.SystemDeps) >= 2
    /\ Applied.SystemDeps # <<>>
    /\ \E i, j \in 1..Len(eff.SystemDeps) :
          i < j /\ eff.SystemDeps[i] = eff.SystemDeps[j]
    /\ \E i, j \in 1..Len(eff.Patches) :
          i < j /\ eff.Patches[i] = eff.Patches[j]

\* C9: when an override applies, the effective env is the union of the base
\* and override maps: every key of either is present, a key of both has the
\* override's value, a key of the base alone keeps the base value.
C9_EnvUnion ==
    Applies =>
        /\ DOMAIN eff.Env = DOMAIN cfg.Env \cup DOMAIN Applied.Env
        /\ \A k \in DOMAIN Applied.Env : eff.Env[k] = Applied.Env[k]
        /\ \A k \in DOMAIN cfg.Env \ DOMAIN Applied.Env : eff.Env[k] = cfg.Env[k]

\* An override applied with a colliding key of another value, a key of its
\* own, and a key only the base has.
C9_Witness ==
    /\ Applies
    /\ \E k \in DOMAIN cfg.Env \cap DOMAIN Applied.Env : cfg.Env[k] # Applied.Env[k]
    /\ DOMAIN Applied.Env \ DOMAIN cfg.Env # {}
    /\ DOMAIN cfg.Env \ DOMAIN Applied.Env # {}

\* C10: when an override applies, the effective script is the override's
\* script if that is non-empty and the base script otherwise; an empty
\* override script never clears a non-empty base script.
C10_ScriptReplace ==
    Applies =>
        /\ Applied.Script # "" => eff.Script = Applied.Script
        /\ Applied.Script = "" => eff.Script = cfg.Script

\* An override with an empty script applied to a base that has a script.
C10_Witness ==
    /\ Applies
    /\ Applied.Script = ""
    /\ cfg.Script # ""
    /\ eff.Script = cfg.Script

-----------------------------------------------------------------------------
(* pkg/builder: runtimes and wheel file names (builder.go)                 *)

Py310 == <<"3", ".", "1", "0">>
Py311 == <<"3", ".", "1", "1">>

\* PythonBinary
PythonBinary(version) ==
    <<"/", "u", "s", "r", "/", "b", "i", "n", "/",
      "p", "y", "t", "h", "o", "n">> \o version

\* PythonCPVersion
PythonCPVersion(version) == <<"c", "p">> \o ReplaceFirst(version, ".", <<>>)

\* PythonABI
PythonABI(version) == PythonCPVersion(version)

\* DefaultPlatform
DefaultPlatform ==
    <<"l", "i", "n", "u", "x", "_", "a", "a", "r", "c", "h", "6", "4">>

WhlExt == <<".", "w", "h", "l">>

\* A file name built from the name and version as given.
MutWheelFilenameRaw(packageName, version, pythonVersion, platform) ==
    packageName \o <<"-">> \o version
         \o <<"-">> \o PythonCPVersion(pythonVersion)
         \o <<"-">> \o PythonABI(pythonVersion)
         \o <<"-">> \o platform \o WhlExt

\* WheelFilename
WheelFilename(packageName, version, pythonVersion, platform) ==
    LET normalized == ReplaceAll(ReplaceAll(packageName, "-", <<"_">>), ".", <<"_">>)
        normalizedVersion == ReplaceAll(version, "-", <<"_">>)
    IN normalized \o <<"-">> \o normalizedVersion
         \o <<"-">> \o PythonCPVersion(pythonVersion)
         \o <<"-">> \o PythonABI(pythonVersion)
         \o <<"-">> \o platform \o WhlExt

\* filepath.Match of a base name against "*-<cp>-<cp>-*.whl"
globMatches(base, cpVersion) ==
    LET mid == <<"-">> \o cpVersion \o <<"-">> \o cpVersion \o <<"-">>
    IN /\ HasSuffix(base, WhlExt)
       /\ \E i \in 0..(Len(base) - Len(mid) - Len(WhlExt)) :
             SubSeq(base, i + 1, i + Len(mid)) = mid

\* filepath.Glob returns the names of a directory in sorted order.
RECURSIVE SortedNames(_)
SortedNames(S) ==
    IF S = {} THEN <<>>
    ELSE LET m == CHOOSE x \in S : \A y \in S \ {x} : StrLess(x, y)
         IN <<m>> \o SortedNames(S \ {m})

\* The test of findWheel's loop for one match.
namesVersion(base, version) ==
    \/ Contains(base, <<"-">> \o version \o <<"-">>)
    \/ Contains(base, <<"-">> \o ReplaceAll(version, ".", <<"_">>) \o <<"-">>)

\* Builder.findWheel: [path, err]; a path is the file's name in b.DistDir
findWheel(files, version, python) ==
    LET cpVersion == <<"c", "p">> \o ReplaceFirst(python, ".", <<>>)
        matches == SortedNames({f \in files : globMatches(f, cpVersion)})
        exact == {i \in 1..Len(matches) : namesVersion(matches[i], version)}
    IN IF exact # {} THEN [path |-> matches[FirstOf(exact)], err |-> None]
       ELSE IF Len(matches) > 0 THEN [path |-> matches[1], err |-> None]
       ELSE [path |-> <<>>, err |-> "no wheel found"]

-----------------------------------------------------------------------------
(* pkg/builder: Builder.BuildAll and Builder.Build (builder.go)            *)
(*                                                                         *)
(* The orchestrator blocks in every subprocess it starts; the model takes  *)
(* one step per subprocess (its outcome is the environment's choice) and   *)
(* two for the build command, which the orchestrator starts and then waits *)
(* for while the clock runs.                                               *)

PackageName == <<"p", "k", "g">>

\* DefaultTimeout, in hours
DefaultTimeout == 4

BuildConfigs ==
    {MkConfig(BaseTest, <<Ver120, Ver210>>, <<OverrideNew, OverrideOld>>),
     MkConfig(BaseEmpty, <<Ver120, Ver210>>, <<>>),
     MkConfig(BaseEmpty, <<Ver210>>, <<OverrideBare>>)}

\* A subprocess the orchestrator started: for which version (index in
\* cfg.Versions), what, and whether it exited zero (builds: None while the
\* command has not exited).
Cmd(k, kind, arg, ok) == [vi |-> k, kind |-> kind, arg |-> arg, ok |-> ok]

\* A BuildResult.
FailedResult(version, py, err) ==
    [Version |-> version, Python |-> py, WheelPath |-> <<>>,
     Success |-> FALSE, Error |-> err]

MutAllFailedFirstOnly(version, pys, err) ==
    [j \in 1..(IF Len(pys) > 0 THEN 1 ELSE 0) |-> FailedResult(version, pys[j], err)]

\* "Return failure for all Python versions"
allFailed(version, pys, err) ==
    [j \in 1..Len(pys) |-> FailedResult(version, pys[j], err)]

\* Checkout's error: both fetches failed, or git checkout failed.
MutCheckoutErrFetchOnly(fetchTagOk, fetchRefOk, checkoutOk) ==
    IF ~fetchTagOk /\ ~fetchRefOk THEN "fetching ref" ELSE None
checkoutErr(fetchTagOk, fetchRefOk, checkoutOk) ==
    IF ~fetchTagOk /\ ~fetchRefOk THEN "fetching ref"
    ELSE IF ~checkoutOk THEN "checking out"
    ELSE None

\* The subprocesses of Checkout, in order.
checkoutCmds(k, ref, fetchTagOk, fetchRefOk, checkoutOk) ==
    <<Cmd(k, "git fetch tag", ref, fetchTagOk)>>
    \o (IF fetchTagOk THEN <<>> ELSE <<Cmd(k, "git fetch", ref, fetchRefOk)>>)
    \o (IF fetchTagOk \/ fetchRefOk
        THEN <<Cmd(k, "git checkout", "FETCH_HEAD", checkoutOk)>>
        ELSE <<>>)
    \o (IF (fetchTagOk \/ fetchRefOk) /\ checkoutOk
        THEN <<Cmd(k, "git clean", "-fdx", TRUE)>>
        ELSE <<>>)

\* The command buildForPython starts.
buildCommand(python, e) ==
    IF e.Script # "" THEN <<"sh", "-c", e.Script>>
    ELSE <<PythonBinary(python), "-m", "pip", "wheel", "--no-deps",
           "--no-binary", ":all:", "-w", "dist", ".">>

\* buildForPython once cmd.Run has returned.
buildResult(version, python, exitZero, files) ==
    IF ~exitZero THEN FailedResult(version, python, "build failed")
    ELSE LET w == findWheel(files, version, python)
         IN IF w.err # None THEN FailedResult(version, python, w.err)
            ELSE [Version |-> version, Python |-> python, WheelPath |-> w.path,
                  Success |-> TRUE, Error |-> None]

\* Build's loop over pythonVersions goes on after the result of runtime j.
MutLoopStopsOnFailure(result, j, n) == result.Success /\ j < n
loopContinues(result, j, n) == j < n

\* results[v.Version] = ...: Build has returned, BuildAll's loop moves on.
SetResult(map, version, res) ==
    [k \in DOMAIN map \cup {version} |-> IF k = version THEN res ELSE map[k]]

CurVersion == cfg.Versions[vi]

BuildReturns(res) ==
    /\ results' = SetResult(results, CurVersion.Version, res)
    /\ curResults' = <<>>
    /\ vi' = vi + 1
    /\ pi' = 1
    /\ pidx' = 1
    /\ pc' = IF vi + 1 > Len(cfg.Versions) THEN "done" ELSE "Build"

MutAfterDepsSkipsPatches(e) ==
    IF Len(pythonVersions) > 0
    THEN /\ pc' = "buildForPython"
         /\ pi' = 1
         /\ UNCHANGED <<vi, pidx, curResults, results>>
    ELSE BuildReturns(<<>>)

\* Build from its patches on: the next patch, or the first runtime.
AfterDeps(e) ==
    IF Len(e.Patches) > 0
    THEN /\ pc' = "ApplyPatches"
         /\ pidx' = 1
         /\ UNCHANGED <<vi, pi, curResults, results>>
    ELSE IF Len(pythonVersions) > 0
    THEN /\ pc' = "buildForPython"
         /\ pi' = 1
         /\ UNCHANGED <<vi, pidx, curResults, results>>
    ELSE BuildReturns(<<>>)

InitBuild ==
    /\ cfg \in BuildConfigs
    /\ ResolveIdle
    /\ ClaimIdle
    /\ CallIdle
    /\ SkipsIdle
    /\ GcIdle
    /\ MemIdle
    /\ pythonVersions = <<Py310, Py311>>
    /\ pc = IF Len(cfg.Versions) = 0 THEN "done" ELSE "Build"
    /\ vi = 1
    /\ pi = 1
    /\ pidx = 1
    /\ effectiveCfg = NoEffective
    /\ curResults = <<>>
    /\ results = EmptyMap
    /\ dist = {}
    /\ cmdLog = <<>>
    /\ elapsed = 0

\* BuildAll calls Build for the next version; Build runs Checkout and, when
\* that succeeded, resolves the effective configuration.
Checkout(fetchTagOk, fetchRefOk, checkoutOk) ==
    /\ pc = "Build"
    /\ cmdLog' = cmdLog \o checkoutCmds(vi, CurVersion.Tag, fetchTagOk,
                                        fetchRefOk, checkoutOk)
    /\ LET err == checkoutErr(fetchTagOk, fetchRefOk, checkoutOk)
       IN IF err # None
          THEN /\ BuildReturns(allFailed(CurVersion.Version, pythonVersions, err))
               /\ UNCHANGED effectiveCfg
          ELSE /\ effectiveCfg' = getEffectiveConfig(cfg, CurVersion.Version)
               /\ pc' = "InstallSystemDeps"
               /\ UNCHANGED <<vi, pi, pidx, curResults, results>>
    /\ UNCHANGED <<cfg, gcVars, memVars, callVars, skipVars, resolveVars, claimVars, pythonVersions, dist, elapsed>>

\* InstallSystemDeps: no subprocess for an empty list.
InstallSystemDeps(ok) ==
    /\ pc = "InstallSystemDeps"
    /\ Len(effectiveCfg.SystemDeps) = 0 => ok
    /\ cmdLog' = IF Len(effectiveCfg.SystemDeps) = 0 THEN cmdLog
                 ELSE Append(cmdLog, Cmd(vi, "apk add", effectiveCfg.SystemDeps, ok))
    /\ IF ok THEN AfterDeps(effectiveCfg)
       ELSE BuildReturns(allFailed(CurVersion.Version, pythonVersions,
                                   "installing system deps"))
    /\ UNCHANGED <<cfg, gcVars, memVars, callVars, skipVars, resolveVars, claimVars, pythonVersions, effectiveCfg,
                   dist, elapsed>>

\* One round of ApplyPatches' loop: git apply of the next patch.
ApplyPatch(ok) ==
    /\ pc = "ApplyPatches"
    /\ cmdLog' = Append(cmdLog, Cmd(vi, "git apply", effectiveCfg.Patches[pidx], ok))
    /\ IF ~ok
       THEN BuildReturns(allFailed(CurVersion.Version, pythonVersions,
                                   "applying patch"))
       ELSE IF pidx < Len(effectiveCfg.Patches)
       THEN /\ pidx' = pidx + 1
            /\ UNCHANGED <<pc, vi, pi, curResults, results>>
       ELSE IF Len(pythonVersions) > 0
       THEN /\ pc' = "buildForPython"
            /\ pi' = 1
            /\ UNCHANGED <<vi, pidx, curResults, results>>
       ELSE BuildReturns(<<>>)
    /\ UNCHANGED <<cfg, gcVars, memVars, callVars, skipVars, resolveVars, claimVars, pythonVersions, effectiveCfg,
                   dist, elapsed>>

\* buildForPython up to cmd.Run: the build command is started.
StartBuild ==
    /\ pc = "buildForPython"
    /\ cmdLog' = Append(cmdLog,
                        Cmd(vi, "build",
                            [python |-> pythonVersions[pi],
                             command |-> buildCommand(pythonVersions[pi], effectiveCfg)],
                            None))
    /\ pc' = "cmdRunning"
    /\ elapsed' = 0
    /\ UNCHANGED <<cfg, gcVars, memVars, callVars, skipVars, resolveVars, claimVars, pythonVersions, vi, pi, pidx,
                   effectiveCfg, curResults, results, dist>>

\* An hour passes while cmd.Run blocks.  Nothing in buildForPython bounds the
\* wait; the model stops counting one hour past DefaultTimeout.
Tick ==
    /\ pc = "cmdRunning"
    /\ elapsed <= DefaultTimeout
    /\ elapsed' = elapsed + 1
    /\ UNCHANGED <<cfg, gcVars, memVars, callVars, skipVars, resolveVars, claimVars, pythonVersions, pc, vi, pi, pidx,
                   effectiveCfg, curResults, results, dist, cmdLog>>

\* What a build command that exits zero may have left in b.DistDir: nothing,
\* the wheel of this version and runtime, or a pure-Python wheel.
PureWheel(version) ==
    PackageName \o <<"-">> \o version
        \o <<"-", "p", "y", "3", "-", "n", "o", "n", "e", "-", "a", "n", "y">>
        \o WhlExt

BuildOutputs == {"nothing", "wheel", "pure wheel"}

Written(output, version, python) ==
    CASE output = "nothing" -> {}
      [] output = "wheel" ->
           {WheelFilename(PackageName, version, python, DefaultPlatform)}
      [] output = "pure wheel" -> {PureWheel(version)}

\* cmd.Run returns: the rest of buildForPython, and Build's loop.
CmdExit(exitZero, output) ==
    /\ pc = "cmdRunning"
    /\ ~exitZero => output = "nothing"
    /\ dist' = dist \cup Written(output, CurVersion.Version, pythonVersions[pi])
    /\ cmdLog' = [cmdLog EXCEPT ![Len(cmdLog)].ok = exitZero]
    /\ elapsed' = 0
    /\ LET r == buildResult(CurVersion.Version, pythonVersions[pi], exitZero, dist')
       IN IF loopContinues(r, pi, Len(pythonVersions))
          THEN /\ curResults' = Append(curResults, r)
               /\ pi' = pi + 1
               /\ pc' = "buildForPython"
               /\ UNCHANGED <<vi, pidx, results>>
          ELSE BuildReturns(Append(curResults, r))
    /\ UNCHANGED <<cfg, gcVars, memVars, callVars, skipVars, resolveVars, claimVars, pythonVersions, effectiveCfg>>

NextBuild ==
    \/ \E fetchTagOk \in BOOLEAN :
         \E fetchRefOk \in (IF fetchTagOk THEN {TRUE} ELSE BOOLEAN) :
           \E checkoutOk \in (IF fetchRefOk THEN BOOLEAN ELSE {FALSE}) :
             Checkout(fetchTagOk, fetchRefOk, checkoutOk)
    \/ \E ok \in BOOLEAN : InstallSystemDeps(ok)
    \/ \E ok \in BOOLEAN : ApplyPatch(ok)
    \/ StartBuild
    \/ Tick
    \/ \E exitZero \in BOOLEAN :
         \E output \in BuildOutputs : CmdExit(exitZero, output)

Spec == InitBuild /\ [][NextBuild]_vars

-----------------------------------------------------------------------------
(* Properties of the build matrix, under Spec.                             *)

\* Every result recorded so far: those BuildAll holds and those of the Build
\* call in progress.
AllResults ==
    {results[v][j] : v \in DOMAIN results, j \in 1..Len(pythonVersions)}
    \cup {curResults[j] : j \in 1..Len(curResults)}

\* A file name that encodes the package name, the version and the ABI tag of
\* the runtime, per the artifact filename convention, for some platform tag.
EncodesWheel(file, name, version, python) ==
    LET stem == SubSeq(WheelFilename(name, version, python, <<>>), 1,
                       Len(WheelFilename(name, version, python, <<>>)) - Len(WhlExt))
    IN /\ HasPrefix(file, stem)
       /\ HasSuffix(file, WhlExt)
       /\ Len(file) > Len(stem) + Len(WhlExt)

\* C3: a successful result for (version v, runtime r) has a WheelPath naming
\* a file of the output directory whose name encodes the package name, v and
\* the ABI tag of r; a build that exits zero without producing such a file is
\* a failure -- also when the directory holds wheels of earlier versions.
C3_SuccessNamesOwnWheel ==
    \A r \in AllResults :
        r.Success =>
            /\ r.WheelPath \in dist
            /\ EncodesWheel(r.WheelPath, PackageName, r.Version, r.Python)

\* The subprocesses started for the k-th version.
CmdsOf(k) == {i \in 1..Len(cmdLog) : cmdLog[i].vi = k}

BuildStartedFor(k, python) ==
    \E i \in CmdsOf(k) : cmdLog[i].kind = "build" /\ cmdLog[i].arg.python = python

\* C4: one failed (version, runtime) never aborts the run.  When BuildAll
\* returns, every configured version has one result per requested runtime;
\* a version whose builds began had a build command started for every
\* runtime; and every version was checked out, whatever failed before it.
C4_FullMatrix ==
    /\ pc = "done" =>
         \A k \in 1..Len(cfg.Versions) :
            /\ cfg.Versions[k].Version \in DOMAIN results
            /\ Len(results[cfg.Versions[k].Version]) = Len(pythonVersions)
            /\ \A j \in 1..Len(pythonVersions) :
                  /\ results[cfg.Versions[k].Version][j].Python = pythonVersions[j]
                  /\ results[cfg.Versions[k].Version][j].Version = cfg.Versions[k].Version
            /\ (\E i \in CmdsOf(k) : cmdLog[i].kind = "build")
                  => \A j \in 1..Len(pythonVersions) :
                        BuildStartedFor(k, pythonVersions[j])
            /\ \E i \in CmdsOf(k) : cmdLog[i].kind = "git fetch tag"
    /\ pc # "done" => vi <= Len(cfg.Versions)

\* The run is over; the first runtime of the first version failed to build,
\* the second runtime of that version and a runtime of the next version
\* succeeded.
C4_Witness ==
    /\ pc = "done"
    /\ Len(cfg.Versions) >= 2
    /\ ~results[cfg.Versions[1].Version][1].Success
    /\ results[cfg.Versions[1].Version][1].Error = "build failed"
    /\ results[cfg.Versions[1].Version][2].Success
    /\ results[cfg.Versions[2].Version][1].Success

\* C5: every run terminates: a build command that does not exit by itself
\* is cancelled once the wall-clock timeout has elapsed (and recorded as a
\* failed attempt), so no build command is still running after it.
C5_TimeoutCancels == ~(pc = "cmdRunning" /\ elapsed > DefaultTimeout)

\* The checkout of the k-th version failed: neither fetch succeeded, or git
\* checkout exited non-zero.
CheckoutFailed(k) ==
    \/ \E i \in CmdsOf(k) : cmdLog[i].kind = "git fetch" /\ ~cmdLog[i].ok
    \/ \E i \in CmdsOf(k) : cmdLog[i].kind = "git checkout" /\ ~cmdLog[i].ok

\* C6: when the checkout of a version fails, Build returns one failed result
\* per requested runtime (no success, an error, no wheel path) and neither
\* apk, git apply nor a build command is run for that version.
C6_CheckoutFailureIsFatal ==
    \A k \in 1..Len(cfg.Versions) :
        CheckoutFailed(k) =>
            /\ cfg.Versions[k].Version \in DOMAIN results
            /\ Len(results[cfg.Versions[k].Version]) = Len(pythonVersions)
            /\ \A j \in 1..Len(pythonVersions) :
                  LET r == results[cfg.Versions[k].Version][j]
                  IN /\ r.Python = pythonVersions[j]
                     /\ ~r.Success
                     /\ r.Error # None
                     /\ r.WheelPath = <<>>
            /\ \A i \in CmdsOf(k) :
                  cmdLog[i].kind \notin {"apk add", "git apply", "build"}

\* The fetch of the first version's tag succeeded and its git checkout
\* failed, in a configuration that has dependencies and patches; the next
\* version was built.
C6_Witness ==
    /\ pc = "done"
    /\ Len(cfg.Versions) >= 2
    /\ Len(cfg.SystemDeps) > 0
    /\ Len(cfg.Patches) > 0
    /\ \E i \in CmdsOf(1) : cmdLog[i].kind = "git checkout" /\ ~cmdLog[i].ok
    /\ \A j \in 1..Len(pythonVersions) : ~results[cfg.Versions[1].Version][j].Success
    /\ results[cfg.Versions[2].Version][1].Success

\* C7: a configuration with an override whose match specifier is invalid is
\* rejected before any build runs: no subprocess is started for it and no
\* result is produced.
HasInvalidOverride(c) == validateOverrides(c.Overrides) # None

C7_InvalidOverrideRejected ==
    HasInvalidOverride(cfg) => cmdLog = <<>> /\ results = EmptyMap

-----------------------------------------------------------------------------
(* pkg/config: agents writing the claim file of one package (parse.go)     *)
(*                                                                         *)
(* Each agent calls SaveClaim(claim, "claims/{package}.yaml") once.  The   *)
(* agents are separate processes, so the system calls of their SaveClaim   *)
(* calls interleave: MkdirAll, then os.WriteFile's open (O_CREATE|O_TRUNC) *)
(* and its write.  I/O errors of the file system are left out: every call  *)
(* runs to its return nil.                                                 *)

NumAgents == 3

Agents == 1..NumAgents

ClaimTypes == {"build", "version", "fixer"}

\* The Claim an agent saves; claimed_at is the agent's own clock reading.
ClaimOf(a, type) == [Agent |-> a, ClaimedAt |-> a, Type |-> type]

InitClaim ==
    /\ cfg = MkConfig(BaseEmpty, <<Ver120>>, <<>>)
    /\ CallIdle
    /\ SkipsIdle
    /\ GcIdle
    /\ MemIdle
    /\ ResolveIdle
    /\ BuildIdle
    /\ claimsDir = FALSE
    /\ claimFile = None
    /\ apc = [a \in Agents |-> "start"]
    /\ aret = [a \in Agents |-> None]

\* yaml.Marshal and os.MkdirAll(filepath.Dir(path))
SaveClaimMkdir(a) ==
    /\ apc[a] = "start"
    /\ claimsDir' = TRUE
    /\ apc' = [apc EXCEPT ![a] = "mkdir"]
    /\ UNCHANGED <<cfg, gcVars, memVars, callVars, skipVars, resolveVars, buildVars, claimFile, aret>>

\* What os.WriteFile's open leaves of the file: it is created or truncated,
\* whatever it held.
openTruncate(existing) == "<empty>"

\* os.WriteFile: OpenFile(name, O_WRONLY|O_CREATE|O_TRUNC, perm)
SaveClaimOpen(a) ==
    /\ apc[a] = "mkdir"
    /\ claimFile' = openTruncate(claimFile)
    /\ apc' = [apc EXCEPT ![a] = "open"]
    /\ UNCHANGED <<cfg, gcVars, memVars, callVars, skipVars, resolveVars, buildVars, claimsDir, aret>>

\* os.WriteFile: f.Write(data), f.Close(); SaveClaim returns nil
SaveClaimWrite(a, type) ==
    /\ apc[a] = "open"
    /\ claimFile' = ClaimOf(a, type)
    /\ apc' = [apc EXCEPT ![a] = "returned"]
    /\ aret' = [aret EXCEPT ![a] = "nil"]
    /\ UNCHANGED <<cfg, gcVars, memVars, callVars, skipVars, resolveVars, buildVars, claimsDir>>

NextClaim ==
    \E a \in Agents :
        \/ SaveClaimMkdir(a)
        \/ SaveClaimOpen(a)
        \/ \E type \in ClaimTypes : SaveClaimWrite(a, type)

SpecClaim == InitClaim /\ [][NextClaim]_vars

\* C1: of the agents that try to claim the same package, exactly one
\* succeeds and the others observe a conflict; a lease that exists is never
\* overwritten, so the stored lease stays the first winner's.
C1_AtomicClaim ==
    /\ Cardinality({a \in Agents : aret[a] = "nil"}) <= 1
    /\ (\A a \in Agents : apc[a] = "returned") =>
          /\ Cardinality({a \in Agents : aret[a] = "nil"}) = 1
          /\ \A a \in Agents : aret[a] \in {"nil", "conflict"}

-----------------------------------------------------------------------------
(* MatchesVersion called on its own, as TestMatchesVersion does.  A        *)
(* specifier is drawn as a list of clauses (operator, clause version) and  *)
(* written out the way configuration files write it: clauses joined by a   *)
(* comma, or by a comma and a space.                                       *)

\* The largest number of clauses of a drawn specifier.
MaxClauses == 2

OpEq == <<"=", "=">>
OpNe == <<"!", "=">>
OpLt == <<"<">>
OpLe == <<"<", "=">>
OpGt == <<">">>
OpGe == <<">", "=">>
OpCompatible == <<"~", "=">>

ComparisonOps == {OpEq, OpNe, OpLt, OpLe, OpGt, OpGe}

Ver142 == <<"1", ".", "4", ".", "2">>
Ver20 == <<"2", ".", "0">>
ClauseVersions == {Ver142, Ver20}

\* The versions of TestMatchesVersion's "~=" and range cases, and their
\* neighbours.
MatchVersions ==
    { Ver090, Ver142, Ver20,
      <<"1", ".", "4", ".", "5">>,
      <<"1", ".", "5", ".", "0">>,
      <<"1", ".", "4", "5", ".", "0">>,
      <<"1", ".", "1", "0">>,
      <<"2", ".", "0", ".", "0">>,
      <<"3">> }

DrawnClauses == [op : ComparisonOps \cup {OpCompatible}, ver : ClauseVersions]

ClauseSeparators == {<<",">>, <<",", " ">>}

\* The text of a specifier
RenderSpecifier(clauses, sep) ==
    Join([i \in 1..Len(clauses) |-> clauses[i].op \o clauses[i].ver], sep)

\* Every part but the call at rest.
OthersIdle ==
    /\ cfg = MkConfig(BaseEmpty, <<Ver120>>, <<>>)
    /\ ResolveIdle
    /\ BuildIdle
    /\ ClaimIdle
    /\ SkipsIdle
    /\ GcIdle
    /\ MemIdle

\* A call about to be made on the drawn arguments.
Drawn(inputs) ==
    /\ OthersIdle
    /\ fn = "idle"
    /\ args \in inputs
    /\ ret = None

\* The call made: args is left as drawn.
Returns(name, result) ==
    /\ fn = "idle"
    /\ fn' = name
    /\ ret' = result
    /\ UNCHANGED <<cfg, gcVars, memVars, resolveVars, buildVars, claimVars, skipVars, args>>

MatchInputs ==
    {[version |-> version, clauses |-> clauses,
      specifier |-> RenderSpecifier(clauses, sep)] :
        version \in MatchVersions, sep \in ClauseSeparators,
        clauses \in SeqsUpTo(DrawnClauses, MaxClauses) \ {<<>>}}

InitMatch == Drawn(MatchInputs)

CallMatchesVersion ==
    Returns("MatchesVersion", MatchesVersion(args.version, args.specifier))

NextMatch == CallMatchesVersion

SpecMatch == InitMatch /\ [][NextMatch]_vars

\* What an operator demands of the comparison result.
Decides(op, cmp) ==
    CASE op = OpEq -> cmp = 0
      [] op = OpNe -> cmp # 0
      [] op = OpLt -> cmp < 0
      [] op = OpLe -> cmp <= 0
      [] op = OpGt -> cmp > 0
      [] op = OpGe -> cmp >= 0

MatchCalled == fn = "MatchesVersion"

OnlyComparisons ==
    \A i \in 1..Len(args.clauses) : args.clauses[i].op \in ComparisonOps

\* C11: MatchesVersion returns true exactly when the version satisfies
\* every comma-separated clause of the specifier, each of ==, !=, <, <=, >,
\* >= being decided by the comparison of the version with the clause's
\* version.
C11_AllClauses ==
    (MatchCalled /\ OnlyComparisons) =>
        /\ ~ret.err
        /\ ret.matches =
             \A i \in 1..Len(args.clauses) :
                 Decides(args.clauses[i].op,
                         compareVersions(args.version, args.clauses[i].ver))

\* A two-clause range whose first clause holds and whose second does not.
C11_Witness ==
    /\ MatchCalled
    /\ OnlyComparisons
    /\ Len(args.clauses) = 2
    /\ args.clauses[1] = [op |-> OpGe, ver |-> Ver142]
    /\ args.clauses[2] = [op |-> OpLt, ver |-> Ver20]
    /\ args.version = Ver20
    /\ ~ret.matches

CompatibleCalled ==
    /\ MatchCalled
    /\ Len(args.clauses) = 1
    /\ args.clauses[1].op = OpCompatible

\* The dotted segments of the version equal those of s at every position
\* before the last segment of s.
SegmentsAgree(version, s) ==
    LET vSeg == Split(version, ".")
        sSeg == Split(s, ".")
    IN \A i \in 1..(Len(sSeg) - 1) : i <= Len(vSeg) /\ vSeg[i] = sSeg[i]

\* C12: a version matches ~=S exactly when it compares greater than or equal
\* to S and its dotted segments equal those of S at every position before
\* the last segment of S.
C12_CompatibleRelease ==
    CompatibleCalled =>
        ret.matches = (/\ compareVersions(args.version, args.clauses[1].ver) >= 0
                       /\ SegmentsAgree(args.version, args.clauses[1].ver))

-----------------------------------------------------------------------------
(* compareVersions called on its own, as TestCompareVersions does.         *)

\* The largest number of dotted segments of a drawn version.
MaxSegments == 3

\* Segments whose text order and numeric order differ ("10" against "9").
DrawnSegments == {<<"0">>, <<"9">>, <<"1", "0">>}

DottedVersions ==
    {Join(segs, <<".">>) : segs \in SeqsUpTo(DrawnSegments, MaxSegments) \ {<<>>}}

\* Versions with a non-numeric suffix.
SuffixedVersions ==
    { <<"1", ".", "0", "r", "c", "1">>,
      <<"1", ".", "0", ".", "p", "o", "s", "t", "1">> }

Ver10 == <<"1", ".", "0">>
Ver100 == <<"1", ".", "0", ".", "0">>
Ver1100 == <<"1", ".", "1", "0", ".", "0">>
Ver190 == <<"1", ".", "9", ".", "0">>

\* The versions of TestCompareVersions' shorter-version and 1.10 cases.
TestedVersions == {Ver10, Ver100, Ver1100, Ver190, <<"1", ".", "0", ".", "1">>}

CompareInputs == DottedVersions \cup SuffixedVersions \cup TestedVersions

CompareArgs == [a : CompareInputs, b : CompareInputs]

InitCompare == Drawn(CompareArgs)

CallCompareVersions ==
    Returns("compareVersions", compareVersions(args.a, args.b))

NextCompare == CallCompareVersions

SpecCompare == InitCompare /\ [][NextCompare]_vars

CompareCalled == fn = "compareVersions"

\* The number a segment starts with, 0 when it starts with none.
SegmentNumber(seg) ==
    LET k == CHOOSE n \in 0..Len(seg) :
                 /\ \A i \in 1..n : seg[i] \in DigitChars
                 /\ n = Len(seg) \/ seg[n + 1] \notin DigitChars
    IN DecimalValue(SubSeq(seg, 1, k), 0)

\* The number at position i of a version, 0 past its last segment.
NumberAt(version, i) ==
    LET segs == Split(version, ".")
    IN IF i <= Len(segs) THEN SegmentNumber(segs[i]) ELSE 0

SegmentCount(version) == Len(Split(version, "."))

Differing(a, b) ==
    {i \in 1..(SegmentCount(a) + SegmentCount(b)) : NumberAt(a, i) # NumberAt(b, i)}

\* C13: compareVersions compares the dotted segments as numbers from left to
\* right, a missing trailing segment counting as zero, and returns -1, 0 or
\* 1 according to the first position where they differ; so 1.0 equals 1.0.0
\* and 1.10.0 is greater than 1.9.0.
C13_NumericSegments ==
    CompareCalled =>
        /\ ret = IF Differing(args.a, args.b) = {} THEN 0
                 ELSE LET k == FirstOf(Differing(args.a, args.b))
                      IN IF NumberAt(args.a, k) < NumberAt(args.b, k)
                         THEN -1 ELSE 1
        /\ (args.a = Ver10 /\ args.b = Ver100) => ret = 0
        /\ (args.a = Ver1100 /\ args.b = Ver190) => ret = 1

\* 1.10.0 against 1.9.0: the numbers order them the other way than the text.
C13_Witness ==
    /\ CompareCalled
    /\ args.a = Ver1100
    /\ args.b = Ver190
    /\ ret = 1

-----------------------------------------------------------------------------
(* isValidPEP440 called on its own, as TestIsValidPEP440 does.             *)

\* Operator texts: the seven operators, two runs of operator characters
\* that are not operators, and none at all.
DrawnOperators ==
    ComparisonOps \cup {OpCompatible, <<"=", ">">>, <<"~">>, <<>>}

\* Version texts: numeric, numeric with a suffix, not numeric, missing.
DrawnVersionTexts ==
    { Ver20, <<"1", ".", "0", "r", "c", "1">>, <<"a", "b", "c">>, <<>> }

ValidInputs ==
    {[clauses |-> clauses, specifier |-> RenderSpecifier(clauses, sep)] :
        sep \in ClauseSeparators,
        clauses \in SeqsUpTo([op : DrawnOperators, ver : DrawnVersionTexts],
                             MaxClauses)}

InitValid == Drawn(ValidInputs)

CallIsValidPEP440 == Returns("isValidPEP440", isValidPEP440(args.specifier))

NextValid == CallIsValidPEP440

SpecValid == InitValid /\ [][NextValid]_vars

ValidCalled == fn = "isValidPEP440"

\* A dotted numeric version, optionally with a non-numeric suffix: dotted
\* segments of digits, letters and "_", none empty, starting with a digit.
WellFormedVersion(text) ==
    LET segs == Split(text, ".")
    IN /\ \A i \in 1..Len(segs) :
              /\ segs[i] # <<>>
              /\ \A j \in 1..Len(segs[i]) :
                     segs[i][j] \in DigitChars \cup LetterChars \cup {"_"}
       /\ segs[1] # <<>>
       /\ segs[1][1] \in DigitChars

\* The grammar of specifiers: one or more clauses, each one of the seven
\* operators followed by a well-formed version.
InGrammar(clauses) ==
    /\ clauses # <<>>
    /\ \A i \in 1..Len(clauses) :
           /\ clauses[i].op \in ComparisonOps \cup {OpCompatible}
           /\ WellFormedVersion(clauses[i].ver)

\* C14: isValidPEP440 accepts a string exactly when it is one or more
\* comma-joined clauses, each one of ==, !=, <, <=, >, >=, ~= followed by a
\* dotted numeric version with an optional non-numeric suffix; the empty
\* string and a bare version are rejected.
C14_AcceptsGrammar ==
    ValidCalled => (ret = InGrammar(args.clauses))

-----------------------------------------------------------------------------
(* ValidateConfig called on its own, as TestValidateConfig does.           *)

\* The largest number of versions of a drawn configuration.
MaxVersions == 2

\* Version entries: two complete ones, a second tag of 1.2.0, one without
\* tag, one without version.
DrawnVersionEntries ==
    { [Tag |-> <<"v">> \o Ver120, Version |-> Ver120],
      [Tag |-> <<"v">> \o Ver210, Version |-> Ver210],
      [Tag |-> <<"r">> \o Ver120, Version |-> Ver120],
      [Tag |-> <<>>, Version |-> Ver120],
      [Tag |-> <<"v">>, Version |-> <<>>] }

\* Match specifiers as clause lists: none, ">=2.0", ">=1.4.2, <2.0", the
\* bare "2.0", and "~2.0".
DrawnMatches ==
    { <<>>,
      <<[op |-> OpGe, ver |-> Ver20]>>,
      <<[op |-> OpGe, ver |-> Ver142], [op |-> OpLt, ver |-> Ver20]>>,
      <<[op |-> <<>>, ver |-> Ver20]>>,
      <<[op |-> <<"~">>, ver |-> Ver20]>> }

\* An override that only scopes: its delta is empty.
OverrideMatching(match) ==
    [Match |-> match, SystemDeps |-> <<>>, Env |-> EmptyMap,
     Patches |-> <<>>, Script |-> ""]

DrawnConfig(repo, versions, matches) ==
    [Repo |-> repo, Versions |-> versions,
     SystemDeps |-> <<>>, Env |-> EmptyMap, Patches |-> <<>>, Script |-> "",
     Overrides |-> [i \in 1..Len(matches) |->
                      OverrideMatching(RenderSpecifier(matches[i], <<",", " ">>))]]

ValidateInputs ==
    {[config |-> DrawnConfig(repo, versions, matches), matches |-> matches] :
        repo \in {"", "https://github.com/test/pkg"},
        versions \in SeqsUpTo(DrawnVersionEntries, MaxVersions),
        matches \in SeqsUpTo(DrawnMatches, MaxOverrides)}

InitValidate == Drawn(ValidateInputs)

CallValidateConfig == Returns("ValidateConfig", ValidateConfig(args.config))

NextValidate == CallValidateConfig

SpecValidate == InitValidate /\ [][NextValidate]_vars

ValidateCalled == fn = "ValidateConfig"

\* What the configuration must satisfy to be accepted.
WellFormedConfig(c, matches) ==
    /\ c.Repo # ""
    /\ Len(c.Versions) > 0
    /\ \A i \in 1..Len(c.Versions) :
           c.Versions[i].Tag # <<>> /\ c.Versions[i].Version # <<>>
    /\ \A i, j \in 1..Len(c.Versions) :
           i # j => c.Versions[i].Version # c.Versions[j].Version
    /\ \A i \in 1..Len(c.Overrides) :
           c.Overrides[i].Match # <<>> /\ InGrammar(matches[i])

\* C15: ValidateConfig returns no error exactly when the repo is non-empty,
\* there is at least one version, every version has a non-empty tag and
\* version, the version values are pairwise distinct, and every override
\* has a non-empty, valid match specifier; otherwise it returns an error.
C15_ValidateConfigExact ==
    ValidateCalled => ((ret = None) = WellFormedConfig(args.config, args.matches))

-----------------------------------------------------------------------------
(* Builder.buildEnv called on its own, as TestBuildEnv does.               *)
(*                                                                         *)
(* An environment is a Go []string of "key=value" entries.  An entry is    *)
(* modelled as its key, the directories buildEnv has put in front of the   *)
(* value (each followed by ":"), and the value as it was.                  *)

Entry(key, text) == [key |-> key, prefix |-> <<>>, text |-> text]

\* os.Environ(): with PATH, without PATH, and with a variable the
\* configuration also sets.
DrawnEnvirons ==
    { <<Entry("HOME", "/root"), Entry("PATH", "/usr/local/bin:/bin")>>,
      <<Entry("HOME", "/root")>>,
      <<Entry("FOO", "ambient"), Entry("PATH", "/usr/local/bin:/bin"),
        Entry("HOME", "/root")>> }

\* effectiveConfig.Env: the map of TestBuildEnv, its parts, and maps that
\* set PATH.
DrawnEnvValues ==
    [FOO |-> {"bar", "qux"}, BAZ |-> {"qux"}, PATH |-> {"/opt/bin"}]

DrawnEnvMaps ==
    UNION {[keys -> {"bar", "qux", "/opt/bin"}] : keys \in SUBSET {"FOO", "BAZ", "PATH"}}

EnvMapDrawn(env) == \A k \in DOMAIN env : env[k] \in DrawnEnvValues[k]

\* The orders in which "for k, v := range env" can visit the keys.
RangeOrders(env) ==
    {order \in [1..Cardinality(DOMAIN env) -> DOMAIN env] :
        \A i, j \in DOMAIN order : i # j => order[i] # order[j]}

Py312 == <<"3", ".", "1", "2">>

BuildEnvInputs ==
    {[environ |-> environ, env |-> env, order |-> order, python |-> python] :
        environ \in DrawnEnvirons,
        env \in {e \in DrawnEnvMaps : EnvMapDrawn(e)},
        order \in UNION {RangeOrders(e) : e \in DrawnEnvMaps},
        python \in {Py310, Py312}}

\* filepath.Dir of a cleaned absolute path: all but the last element.
Dir(path) ==
    LET slashes == {i \in 1..Len(path) : path[i] = "/"}
        last == CHOOSE i \in slashes : \A j \in slashes : j <= i
    IN IF slashes = {} THEN <<".">>
       ELSE IF last = 1 THEN <<"/">>
       ELSE SubSeq(path, 1, last - 1)

\* buildEnv, the keys of env visited in the given order
buildEnv(environ, env, order, python) ==
    LET result == environ \o [i \in 1..Len(order) |-> Entry(order[i], env[order[i]])]
        pythonDir == Dir(PythonBinary(python))
        paths == {i \in 1..Len(result) : result[i].key = "PATH"}
    IN IF paths = {} THEN result
       ELSE [result EXCEPT ![FirstOf(paths)].prefix = <<pythonDir>> \o @]

InitBuildEnv ==
    Drawn({i \in BuildEnvInputs : i.order \in RangeOrders(i.env)})

CallBuildEnv ==
    Returns("buildEnv", buildEnv(args.environ, args.env, args.order, args.python))

NextBuildEnv == CallBuildEnv

SpecBuildEnv == InitBuildEnv /\ [][NextBuildEnv]_vars

BuildEnvCalled == fn = "buildEnv"

\* What the command started with cmd.Env = environment sees for a key: of
\* several entries with one key, os/exec keeps the last.
IsSet(environment, key) ==
    \E i \in 1..Len(environment) : environment[i].key = key

Seen(environment, key) ==
    LET found == {i \in 1..Len(environment) : environment[i].key = key}
    IN environment[CHOOSE i \in found : \A j \in found : j <= i]

\* C16: the environment buildEnv hands to the build command is the ambient
\* environment overlaid with the effective env map, every key of the map
\* having its configured value as the command sees it, and PATH as the
\* command sees it begins with the interpreter directory of the runtime.
C16_EnvOverlayAndPath ==
    BuildEnvCalled =>
        /\ \A k \in DOMAIN args.env \ {"PATH"} :
               IsSet(ret, k) /\ Seen(ret, k) = Entry(k, args.env[k])
        /\ \A i \in 1..Len(args.environ) :
               args.environ[i].key \notin DOMAIN args.env \cup {"PATH"} =>
                   /\ IsSet(ret, args.environ[i].key)
                   /\ Seen(ret, args.environ[i].key) = args.environ[i]
        /\ IsSet(ret, "PATH")
        /\ Seen(ret, "PATH").prefix # <<>>
        /\ Seen(ret, "PATH").prefix[1] = Dir(PythonBinary(args.python))
        /\ "PATH" \in DOMAIN args.env =>
               Seen(ret, "PATH").text = args.env["PATH"]

-----------------------------------------------------------------------------
(* The skips file of one package: SaveSkips and LoadSkips called one after *)
(* the other on the same path (parse.go).                                  *)
(*                                                                         *)
(* A file is absent, or holds bytes that are a YAML document or are not.   *)
(* A document is the list under "skips": one mapping per entry, holding    *)
(* the keys yaml.Marshal writes.                                           *)

\* The largest number of entries of a drawn skip list.
MaxSkips == 2

\* The number of SaveSkips calls followed.
MaxSaves == 3

AbsentFile == [exists |-> FALSE, valid |-> FALSE, doc |-> <<>>]
\* The file TestSaveSkipsEmpty creates first: []byte("test")
GarbageFile == [exists |-> TRUE, valid |-> FALSE, doc |-> <<>>]
YamlFile(doc) == [exists |-> TRUE, valid |-> TRUE, doc |-> doc]

\* Skip entries: the one of TestLoadSkips, one without log and attempts, one
\* with attempts only, and the zero Skip.
SkipFull ==
    [Version |-> Ver120, Python |-> <<Py310, Py311>>,
     Reason |-> "incompatible typing", Log |-> "gs://bucket/logs/test.log",
     Attempts |-> 2]
SkipPlain ==
    [Version |-> Ver210, Python |-> <<Py310>>, Reason |-> "test",
     Log |-> "", Attempts |-> 0]
SkipRetried ==
    [Version |-> Ver120, Python |-> <<Py311>>, Reason |-> "test",
     Log |-> "", Attempts |-> 1]
SkipZero ==
    [Version |-> <<>>, Python |-> <<>>, Reason |-> "", Log |-> "", Attempts |-> 0]

DrawnSkipLists == SeqsUpTo({SkipFull, SkipPlain, SkipRetried, SkipZero}, MaxSkips)

\* yaml.Marshal of one Skip: log and attempts are omitempty
marshalSkip(e) ==
    ("version" :> e.Version @@ "python" :> e.Python @@ "reason" :> e.Reason)
    @@ (IF e.Log # "" THEN "log" :> e.Log ELSE EmptyMap)
    @@ (IF e.Attempts # 0 THEN "attempts" :> e.Attempts ELSE EmptyMap)

marshalSkips(skips) == [i \in 1..Len(skips) |-> marshalSkip(skips[i])]

\* yaml.Unmarshal into a zero Skip: a key that is absent leaves the zero value
unmarshalSkip(m) ==
    [Version |-> IF "version" \in DOMAIN m THEN m["version"] ELSE <<>>,
     Python |-> IF "python" \in DOMAIN m THEN m["python"] ELSE <<>>,
     Reason |-> IF "reason" \in DOMAIN m THEN m["reason"] ELSE "",
     Log |-> IF "log" \in DOMAIN m THEN m["log"] ELSE "",
     Attempts |-> IF "attempts" \in DOMAIN m THEN m["attempts"] ELSE 0]

unmarshalSkips(doc) == [i \in 1..Len(doc) |-> unmarshalSkip(doc[i])]

\* A SaveSkips that writes the empty structure instead of removing the file.
MutSaveSkipsAlwaysWrites(skips, file) == YamlFile(marshalSkips(skips))

\* SaveSkips: the file at path afterwards
saveSkipsFile(skips, file) ==
    IF Len(skips) = 0 THEN AbsentFile
    ELSE YamlFile(marshalSkips(skips))

NotLoaded == [done |-> FALSE, skips |-> <<>>, err |-> FALSE]

\* A LoadSkips that reports the missing file.
MutLoadSkipsAbsentFails(file) ==
    IF ~file.exists \/ ~file.valid THEN [done |-> TRUE, skips |-> <<>>, err |-> TRUE]
    ELSE [done |-> TRUE, skips |-> unmarshalSkips(file.doc), err |-> FALSE]

\* LoadSkips: the list and whether an error is returned
loadSkips(file) ==
    IF ~file.exists THEN [done |-> TRUE, skips |-> <<>>, err |-> FALSE]
    ELSE IF ~file.valid THEN [done |-> TRUE, skips |-> <<>>, err |-> TRUE]
    ELSE [done |-> TRUE, skips |-> unmarshalSkips(file.doc), err |-> FALSE]

InitSkips ==
    /\ cfg = MkConfig(BaseEmpty, <<Ver120>>, <<>>)
    /\ ResolveIdle
    /\ BuildIdle
    /\ ClaimIdle
    /\ CallIdle
    /\ GcIdle
    /\ MemIdle
    /\ skipsFile \in {AbsentFile, GarbageFile}
    /\ lastSaved = <<>>
    /\ loaded = NotLoaded
    /\ nSaves = 0

\* args keeps the list given and whether a file, and a YAML one, was found
\* at path.
SaveSkips(skips) ==
    /\ nSaves < MaxSaves
    /\ skipsFile' = saveSkipsFile(skips, skipsFile)
    /\ lastSaved' = skips
    /\ loaded' = NotLoaded
    /\ nSaves' = nSaves + 1
    /\ fn' = "SaveSkips"
    /\ args' = [skips |-> skips,
                found |-> [exists |-> skipsFile.exists, valid |-> skipsFile.valid]]
    /\ ret' = None
    /\ UNCHANGED <<cfg, gcVars, memVars, resolveVars, buildVars, claimVars>>

LoadSkips ==
    /\ ~loaded.done
    /\ loaded' = loadSkips(skipsFile)
    /\ fn' = "LoadSkips"
    /\ ret' = IF loadSkips(skipsFile).err THEN "parsing skips file" ELSE None
    /\ UNCHANGED <<cfg, gcVars, memVars, resolveVars, buildVars, claimVars, args,
                   skipsFile, lastSaved, nSaves>>

NextSkips ==
    \/ \E skips \in DrawnSkipLists : SaveSkips(skips)
    \/ LoadSkips

SpecSkips == InitSkips /\ [][NextSkips]_vars

\* C17: after any sequence of SaveSkips calls on a path, the skips file
\* exists exactly when the list saved last was non-empty; saving an empty
\* list removes an existing file and succeeds when there is none, and an
\* empty structure is never left in the file.
C17_FileIffNonEmpty ==
    nSaves > 0 =>
        /\ skipsFile.exists = (lastSaved # <<>>)
        /\ skipsFile.exists => (skipsFile.valid /\ skipsFile.doc # <<>>)
        /\ fn = "SaveSkips" => ret = None

\* An empty list saved over a file an earlier call had written.
C17_Witness ==
    /\ nSaves > 1
    /\ fn = "SaveSkips"
    /\ args.skips = <<>>
    /\ args.found.exists
    /\ args.found.valid
    /\ ~skipsFile.exists

\* C18: an absent skips file and an empty list are the same: LoadSkips with
\* no file returns an empty list and no error, and LoadSkips after
\* SaveSkips(s) returns a list equal to s, for s empty or not.
C18_LoadAfterSave ==
    loaded.done =>
        /\ ~skipsFile.exists => (loaded.skips = <<>> /\ ~loaded.err)
        /\ nSaves > 0 => (loaded.skips = lastSaved /\ ~loaded.err)

\* A list with an entry that has a log and attempts and one that has
\* neither, loaded back.
C18_Witness ==
    /\ loaded.done
    /\ nSaves > 0
    /\ lastSaved = <<SkipFull, SkipPlain>>
    /\ loaded.skips = <<SkipFull, SkipPlain>>

-----------------------------------------------------------------------------
(* ValidateSkips called on its own, as TestValidateSkips does.             *)

\* Entries with each required field present or missing, and attempts
\* negative, zero (omitted) and positive.
DrawnSkips ==
    [Version : {<<>>, Ver120}, Python : {<<>>, <<Py310>>},
     Reason : {"", "test"}, Log : {""}, Attempts : {-1, 0, 2}]

RECURSIVE validateSkipsFrom(_, _)
validateSkipsFrom(skips, i) ==
    IF i > Len(skips) THEN None
    ELSE IF skips[i].Version = <<>> THEN "version is required"
    ELSE IF Len(skips[i].Python) = 0 THEN "at least one python version is required"
    ELSE IF skips[i].Reason = "" THEN "reason is required"
    ELSE validateSkipsFrom(skips, i + 1)

\* ValidateSkips: the error it returns, or None
ValidateSkips(skips) == validateSkipsFrom(skips, 1)

InitValidateSkips == Drawn([skips : SeqsUpTo(DrawnSkips, MaxSkips)])

CallValidateSkips == Returns("ValidateSkips", ValidateSkips(args.skips))

NextValidateSkips == CallValidateSkips

SpecValidateSkips == InitValidateSkips /\ [][NextValidateSkips]_vars

ValidateSkipsCalled == fn = "ValidateSkips"

\* C19: ValidateSkips accepts a list only if every entry has a non-empty
\* version, a non-empty set of runtimes, a non-empty reason and a
\* non-negative attempts counter; the empty list is accepted.
C19_SkipsWellFormed ==
    ValidateSkipsCalled =>
        /\ ret = None =>
               \A i \in 1..Len(args.skips) :
                   /\ args.skips[i].Version # <<>>
                   /\ args.skips[i].Python # <<>>
                   /\ args.skips[i].Reason # ""
                   /\ args.skips[i].Attempts >= 0
        /\ args.skips = <<>> => ret = None

-----------------------------------------------------------------------------
(* ValidateClaim called on its own, as TestValidateClaim does.             *)

\* The latest clock reading drawn for claimed_at; 0 is the zero time.Time.
MaxClock == 3

DrawnClaims ==
    [Agent : {"", "test-agent", "other-agent"},
     ClaimedAt : 0..MaxClock,
     Type : ClaimTypes \cup {"", "bogus"}]

\* ValidateClaim: the error it returns, or None
ValidateClaim(claim) ==
    IF claim.Agent = "" THEN "agent is required"
    ELSE IF claim.ClaimedAt = 0 THEN "claimed_at is required"
    ELSE None

InitValidateClaim == Drawn([claim : DrawnClaims])

CallValidateClaim == Returns("ValidateClaim", ValidateClaim(args.claim))

NextValidateClaim == CallValidateClaim

SpecValidateClaim == InitValidateClaim /\ [][NextValidateClaim]_vars

ValidateClaimCalled == fn = "ValidateClaim"

\* C20: ValidateClaim accepts a lease only if its agent is non-empty, its
\* claimedAt is set, and its type is one of build, version, fixer.
C20_ClaimWellFormed ==
    (ValidateClaimCalled /\ ret = None) =>
        /\ args.claim.Agent # ""
        /\ args.claim.ClaimedAt # 0
        /\ args.claim.Type \in ClaimTypes

-----------------------------------------------------------------------------
(* WheelFilename called on its own, as TestWheelFilename does.             *)

ZopeInterface == <<"z", "o", "p", "e", ".", "i", "n", "t", "e", "r", "f", "a", "c", "e">>
Ver60 == <<"6", ".", "0">>
Ver100Beta1 == <<"1", ".", "0", ".", "0", "-", "b", "e", "t", "a", "1">>

\* SupportedPythonVersions
SupportedPythonVersions == {Py310, Py311, Py312, <<"3", ".", "1", "3">>}

\* The names, versions and platforms of TestWheelFilename, a name with both
\* separators and a second platform.
WheelInputs ==
    [name : {<<"n", "u", "m", "p", "y">>, <<"m", "y", "-", "p", "a", "c", "k", "a", "g", "e">>, ZopeInterface, <<"f", "o", "o">>, <<"a", "-", "b", ".", "c", "-", "d">>},
     version : {<<"1", ".", "2", "6", ".", "0">>, Ver100, Ver60, Ver100Beta1, <<"1", "-", "0", "-", "1">>},
     python : SupportedPythonVersions,
     platform : {DefaultPlatform, <<"l", "i", "n", "u", "x", "_", "x", "8", "6", "_", "6", "4">>}]

InitWheel == Drawn(WheelInputs)

CallWheelFilename ==
    Returns("WheelFilename",
            WheelFilename(args.name, args.version, args.python, args.platform))

NextWheel == CallWheelFilename

SpecWheel == InitWheel /\ [][NextWheel]_vars

WheelCalled == fn = "WheelFilename"

\* s with every character of from written as "_"
Underscored(s, from) ==
    [i \in 1..Len(s) |-> IF s[i] \in from THEN "_" ELSE s[i]]

\* "cp" and the runtime identifier without its separator
RuntimeTag(runtime) ==
    LET kept(c) == c # "."
    IN <<"c", "p">> \o SelectSeq(runtime, kept)

\* C21: WheelFilename(name, version, runtime, platform) is
\* normalizedName-normalizedVersion-tag-tag-platform.whl, the name with every
\* "-" and "." replaced by "_", the version with every "-" replaced by "_",
\* the tag "cp" followed by the runtime without its separator.
C21_WheelFilename ==
    WheelCalled =>
        /\ ret = Join(<<Underscored(args.name, {"-", "."}),
                        Underscored(args.version, {"-"}),
                        RuntimeTag(args.python), RuntimeTag(args.python),
                        args.platform>>, <<"-">>) \o WhlExt
        /\ (/\ args.name = ZopeInterface /\ args.version = Ver60
            /\ args.python = Py310 /\ args.platform = DefaultPlatform) =>
               ret = <<"z", "o", "p", "e", "_", "i", "n", "t", "e", "r", "f", "a", "c", "e", "-", "6", ".", "0", "-", "c", "p", "3", "1", "0", "-", "c", "p", "3", "1", "0", "-", "l", "i", "n", "u", "x", "_", "a", "a", "r", "c", "h", "6", "4", ".", "w", "h", "l">>

\* A name with both separators and a version with a hyphen.
C21_Witness ==
    /\ WheelCalled
    /\ args.name = <<"a", "-", "b", ".", "c", "-", "d">>
    /\ args.version = Ver100Beta1
    /\ args.python = Py312
    /\ ret = <<"a", "_", "b", "_", "c", "_", "d", "-", "1", ".", "0", ".", "0", "_", "b", "e", "t", "a", "1", "-", "c", "p", "3", "1", "2", "-", "c", "p", "3", "1", "2", "-", "l", "i", "n", "u", "x", "_", "a", "a", "r", "c", "h", "6", "4", ".", "w", "h", "l">>


\* ---------------------------------------------------------------------------
\* The garbage collector (README "Garbage Collector"; cmd/gc is not part of the
\* sources, so sweep and isExpired follow the written contract).
\* ---------------------------------------------------------------------------

\* README: "For each claim older than TTL (default: 4 hours)", in seconds.
TTL == 14400

Packages == {"numpy", "scipy"}

GcAgents == {"agent-1", "agent-2"}

\* The instants at which something happens: the two claim times and, for each
\* of them, the sweeps one second short of, at and past the time-to-live.
Instants == {0, 1, TTL - 1, TTL, TTL + 1, TTL + 2}

ClaimInstants == {0, 1}

NoLease == [exists |-> FALSE, agent |-> "", claimedAt |-> 0, type |-> ""]

\* config.Claim as stored at claims/{package}.yaml.
Lease(agent, claimedAt, type) ==
    [exists |-> TRUE, agent |-> agent, claimedAt |-> claimedAt, type |-> type]

MutIsExpiredAtTtl(lease, now, ttl) == now - lease.claimedAt >= ttl

isExpired(lease, now, ttl) == now - lease.claimedAt > ttl

\* The leases sweep(now, ttl) deletes: those it loaded and found expired.
Reclaimed(ls, now, ttl) ==
    {p \in Packages : ls[p].exists /\ isExpired(ls[p], now, ttl)}

InitGC ==
    /\ cfg = None
    /\ ResolveIdle
    /\ BuildIdle
    /\ ClaimIdle
    /\ CallIdle
    /\ SkipsIdle
    /\ MemIdle
    /\ leases = [p \in Packages |-> NoLease]
    /\ queue \in SUBSET Packages
    /\ committed = {}
    /\ clock = 0

GcFrame == UNCHANGED <<cfg, resolveVars, buildVars, claimVars, skipVars, memVars>>

GcStep ==
    /\ fn' = "idle"
    /\ args' = None
    /\ ret' = None
    /\ GcFrame

\* acquire: atomic create of the lease; a conflict changes nothing.
Acquire(p, agent, type) ==
    /\ clock \in ClaimInstants
    /\ ~leases[p].exists
    /\ leases' = [leases EXCEPT ![p] = Lease(agent, clock, type)]
    /\ UNCHANGED <<queue, committed, clock>>
    /\ GcStep

\* release: the owning agent deletes its lease.
Release(p) ==
    /\ leases[p].exists
    /\ leases' = [leases EXCEPT ![p] = NoLease]
    /\ UNCHANGED <<queue, committed, clock>>
    /\ GcStep

\* README build agent step 9: the pull request adds packages/{p} and removes
\* the package from queue.txt.
SubmitConfig(p) ==
    /\ leases[p].exists
    /\ p \notin committed
    /\ committed' = committed \cup {p}
    /\ queue' = queue \ {p}
    /\ UNCHANGED <<leases, clock>>
    /\ GcStep

Advance(t) ==
    /\ t > clock
    /\ clock' = t
    /\ UNCHANGED <<leases, queue, committed>>
    /\ GcStep

\* sweep(now, ttl): delete every lease verified as expired; a reclaimed package
\* without a committed configuration is put back into queue.txt.
Sweep ==
    LET gone == Reclaimed(leases, clock, TTL) IN
    /\ fn' = "sweep"
    /\ args' = [now |-> clock, ttl |-> TTL, leases |-> leases,
                queue |-> queue, committed |-> committed]
    /\ ret' = gone
    /\ leases' = [p \in Packages |-> IF p \in gone THEN NoLease ELSE leases[p]]
    /\ queue' = queue \cup (gone \ committed)
    /\ UNCHANGED <<committed, clock>>
    /\ GcFrame

NextGC ==
    \/ \E p \in Packages, agent \in GcAgents, type \in ClaimTypes :
         Acquire(p, agent, type)
    \/ \E p \in Packages : Release(p)
    \/ \E p \in Packages : SubmitConfig(p)
    \/ \E t \in Instants : Advance(t)
    \/ Sweep

SpecGC == InitGC /\ [][NextGC]_vars

Swept == fn = "sweep"

\* C22: a sweep at time now deletes a lease only if now - claimedAt > ttl; a
\* lease claimed at T survives the sweep at T + TTL - 1 and is reclaimed by the
\* sweep at T + TTL + 1; apart from the leases the sweep only adds reclaimed
\* packages without a configuration to the pending-work set.
C22_SweepOnlyExpired ==
    Swept =>
        /\ \A p \in Packages :
             LET before == args.leases[p] IN
             /\ leases[p] # before =>
                  /\ before.exists
                  /\ args.now - before.claimedAt > args.ttl
                  /\ leases[p] = NoLease
             /\ (before.exists /\ args.now = before.claimedAt + args.ttl - 1) =>
                  leases[p] = before
             /\ (before.exists /\ args.now = before.claimedAt + args.ttl + 1) =>
                  ~leases[p].exists
        /\ committed = args.committed
        /\ clock = args.now
        /\ args.queue \subseteq queue
        /\ \A p \in queue \ args.queue :
             /\ args.leases[p].exists
             /\ ~leases[p].exists
             /\ p \notin committed
        /\ BuildIdle /\ ResolveIdle /\ SkipsIdle

C22_Witness ==
    /\ Swept
    /\ args.now = TTL + 1
    /\ args.leases["numpy"].exists /\ args.leases["numpy"].claimedAt = 0
    /\ ~leases["numpy"].exists
    /\ args.leases["scipy"].exists /\ args.leases["scipy"].claimedAt = 1
    /\ leases["scipy"].exists
    /\ "numpy" \notin args.queue
    /\ "numpy" \in queue


\* ---------------------------------------------------------------------------
\* The order of Build's steps, under Spec.
\* ---------------------------------------------------------------------------

\* The step of Build a subprocess belongs to.
StepOf(kind) ==
    CASE kind \in {"git fetch tag", "git fetch", "git checkout", "git clean"} -> 1
      [] kind = "apk add" -> 3
      [] kind = "git apply" -> 4
      [] kind = "build" -> 5

\* The subprocesses of one kind started for the k-th version, in start order.
Started(k, kind) ==
    SelectSeq(cmdLog, LAMBDA c : c.vi = k /\ c.kind = kind)

\* The effective configuration of the k-th version.
EffectiveOf(k) == getEffectiveConfig(cfg, cfg.Versions[k].Version)

CheckedOut(k) ==
    /\ Len(Started(k, "git checkout")) = 1
    /\ Started(k, "git checkout")[1].ok = TRUE

DepsInstalled(k) ==
    IF Len(EffectiveOf(k).SystemDeps) = 0 THEN Len(Started(k, "apk add")) = 0
    ELSE /\ Len(Started(k, "apk add")) = 1
         /\ Started(k, "apk add")[1].arg = EffectiveOf(k).SystemDeps
         /\ Started(k, "apk add")[1].ok = TRUE

PatchesApplied(k) ==
    /\ Len(Started(k, "git apply")) = Len(EffectiveOf(k).Patches)
    /\ \A n \in 1..Len(Started(k, "git apply")) : Started(k, "git apply")[n].ok = TRUE

\* C23: Build checks out, resolves the configuration, installs the system
\* dependencies, applies the patches in their listed order and only then
\* starts the per-runtime build commands; no build command is started unless
\* checkout, dependency install and every patch succeeded; BuildAll finishes
\* every step of one version before the checkout of the next.
C23_StepOrder ==
    /\ \A i, j \in 1..Len(cmdLog) :
          i < j =>
            /\ cmdLog[i].vi <= cmdLog[j].vi
            /\ cmdLog[i].vi = cmdLog[j].vi =>
                  StepOf(cmdLog[i].kind) <= StepOf(cmdLog[j].kind)
    /\ \A k \in 1..Len(cfg.Versions) :
          /\ Len(Started(k, "git apply")) <= Len(EffectiveOf(k).Patches)
          /\ \A n \in 1..Len(Started(k, "git apply")) :
                Started(k, "git apply")[n].arg = EffectiveOf(k).Patches[n]
          /\ Len(Started(k, "build")) > 0 =>
                /\ CheckedOut(k)
                /\ DepsInstalled(k)
                /\ PatchesApplied(k)
    /\ pc \in {"InstallSystemDeps", "ApplyPatches", "buildForPython", "cmdRunning"} =>
          /\ effectiveCfg = EffectiveOf(vi)
          /\ CheckedOut(vi)
    /\ pc = "Build" =>
          /\ \A k \in 1..(vi - 1) : cfg.Versions[k].Version \in DOMAIN results
          /\ \A i \in 1..Len(cmdLog) : cmdLog[i].vi < vi
    /\ pc = "cmdRunning" =>
          /\ cmdLog[Len(cmdLog)].kind = "build"
          /\ cmdLog[Len(cmdLog)].vi = vi
          /\ cmdLog[Len(cmdLog)].arg.python = pythonVersions[pi]

\* The run is over: the first version had its dependencies installed and its
\* patch applied before its builds; the second version was checked out after
\* the last build of the first, and its two patches were applied in order
\* before its builds.
C23_Witness ==
    /\ pc = "done"
    /\ Len(cfg.Versions) = 2
    /\ Len(EffectiveOf(2).Patches) = 2
    /\ \A k \in 1..2 :
          /\ Len(EffectiveOf(k).SystemDeps) > 0
          /\ PatchesApplied(k)
          /\ Len(Started(k, "build")) = Len(pythonVersions)


\* ---------------------------------------------------------------------------
\* The list Build returns, under Spec.
\* ---------------------------------------------------------------------------

\* A BuildResult whose Success flag agrees with its Error and WheelPath.
ConsistentResult(r) ==
    r.Success <=> (r.Error = None /\ r.WheelPath # <<>>)

\* The results of the runtimes 1..n of one version, in request order.
ResultsFor(list, version, n) ==
    /\ Len(list) = n
    /\ \A j \in 1..n :
          /\ list[j].Version = version
          /\ list[j].Python = pythonVersions[j]
          /\ ConsistentResult(list[j])

\* C24: whatever path Build took, the list it returned has exactly one result
\* per requested runtime, in request order, each carrying the version and its
\* runtime; a result is a success iff its error is unset and its wheel path
\* is non-empty.
C24_OneResultPerRuntime ==
    /\ \A v \in DOMAIN results :
          ResultsFor(results[v], v, Len(pythonVersions))
    /\ pc \in {"buildForPython", "cmdRunning"} =>
          ResultsFor(curResults, CurVersion.Version, pi - 1)

\* BuildAll is over: Build returned early for the first version, whose
\* checkout failed, and ran both builds of the second, one of which failed.
C24_Witness ==
    /\ pc = "done"
    /\ Len(cfg.Versions) = 2
    /\ results[cfg.Versions[1].Version][2].Error = "checking out"
    /\ results[cfg.Versions[2].Version][1].Success
    /\ results[cfg.Versions[2].Version][2].Error = "build failed"


\* ---------------------------------------------------------------------------
\* getEffectiveConfig and the memory it shares with the base configuration.
\*
\* A slice or map field of a Go struct refers to a backing array or map.  The
\* heap holds the backing stores; a configuration "at" the heap has addresses
\* where the value-level configuration has lists and maps.  Strings are
\* immutable values and stay in the records.
\* ---------------------------------------------------------------------------

MaxCalls == 2

\* Where b.Config keeps its own backing stores, and overrides[k] its own.
BaseAddr == [SystemDeps |-> 1, Env |-> 2, Patches |-> 3]

OverrideAddr(k) ==
    [SystemDeps |-> 3 * k + 1, Env |-> 3 * k + 2, Patches |-> 3 * k + 3]

RECURSIVE OverrideStores(_, _)
OverrideStores(overrides, k) ==
    IF k > Len(overrides) THEN <<>>
    ELSE <<overrides[k].SystemDeps, overrides[k].Env, overrides[k].Patches>>
         \o OverrideStores(overrides, k + 1)

\* The heap once the configuration c has been loaded.
LoadConfig(c) ==
    <<c.SystemDeps, c.Env, c.Patches>> \o OverrideStores(c.Overrides, 1)

\* b.Config as read through its slices and maps in the heap h.
ConfigAt(h, c) ==
    [c EXCEPT !.SystemDeps = h[BaseAddr.SystemDeps],
              !.Env = h[BaseAddr.Env],
              !.Patches = h[BaseAddr.Patches],
              !.Overrides =
                  [k \in 1..Len(c.Overrides) |->
                      [c.Overrides[k] EXCEPT
                          !.SystemDeps = h[OverrideAddr(k).SystemDeps],
                          !.Env = h[OverrideAddr(k).Env],
                          !.Patches = h[OverrideAddr(k).Patches]]]]

\* An effective configuration as read through its slices and map.
ValueAt(h, e) ==
    [SystemDeps |-> h[e.SystemDeps], Env |-> h[e.Env],
     Patches |-> h[e.Patches], Script |-> e.Script]

\* append(s, extra...): nothing to add returns s itself; otherwise the result
\* holds the elements of both.  Whether Go reuses spare capacity or moves
\* the elements, no element visible through an older slice changes; the
\* result is given a store of its own.
appendSlice(h, addr, extra) ==
    IF Len(extra) = 0 THEN [heap |-> h, addr |-> addr]
    ELSE [heap |-> Append(h, h[addr] \o extra), addr |-> Len(h) + 1]

MutBaseEffectiveShares(h, c) ==
    [heap |-> h,
     eff |-> [SystemDeps |-> BaseAddr.SystemDeps, Env |-> BaseAddr.Env,
              Patches |-> BaseAddr.Patches, Script |-> c.Script]]

\* The composite literal of getEffectiveConfig and "Copy base env":
\* append([]string{}, b.Config.X...) and make(map[string]string) are new stores.
baseEffectiveAt(h, c) ==
    [heap |-> h \o <<<<>> \o h[BaseAddr.SystemDeps],
                     [k \in DOMAIN h[BaseAddr.Env] |-> h[BaseAddr.Env][k]],
                     <<>> \o h[BaseAddr.Patches]>>,
     eff |-> [SystemDeps |-> Len(h) + 1, Env |-> Len(h) + 2,
              Patches |-> Len(h) + 3, Script |-> c.Script]]

\* The body of the override loop for the matching override k.
applyOverrideAt(h, e, c, k) ==
    LET deps == appendSlice(h, e.SystemDeps, h[OverrideAddr(k).SystemDeps])
        patches == appendSlice(deps.heap, e.Patches,
                               deps.heap[OverrideAddr(k).Patches])
    IN [heap |-> [patches.heap EXCEPT
                     ![e.Env] = mergeEnv(@, patches.heap[OverrideAddr(k).Env])],
        eff |-> [SystemDeps |-> deps.addr, Env |-> e.Env,
                 Patches |-> patches.addr,
                 Script |-> replaceScript(e.Script, c.Overrides[k].Script)]]

RECURSIVE overrideLoopAt(_, _, _, _, _)
overrideLoopAt(h, e, c, k, version) ==
    IF k > Len(c.Overrides) THEN [heap |-> h, eff |-> e]
    ELSE LET r == MatchesVersion(version, c.Overrides[k].Match)
         IN IF r.err \/ ~r.matches
            THEN overrideLoopAt(h, e, c, k + 1, version)
            ELSE applyOverrideAt(h, e, c, k)

\* Builder.getEffectiveConfig, with the heap it leaves behind.
getEffectiveConfigAt(h, c, version) ==
    LET base == baseEffectiveAt(h, c)
    IN overrideLoopAt(base.heap, base.eff, c, 1, version)

SharingConfigs ==
    {MkConfig(BaseTest, <<Ver120, Ver210>>, <<OverrideNew, OverrideOld>>),
     MkConfig(BaseScript, <<Ver120, Ver210>>, <<OverrideOld>>),
     MkConfig(BaseTest, <<Ver120, Ver210>>, <<>>)}

SharingVersions == {Ver120, Ver210}

InitSharing ==
    /\ cfg \in SharingConfigs
    /\ ResolveIdle
    /\ BuildIdle
    /\ ClaimIdle
    /\ CallIdle
    /\ SkipsIdle
    /\ GcIdle
    /\ heap = LoadConfig(cfg)
    /\ held = <<>>

SharingFrame ==
    UNCHANGED <<cfg, resolveVars, buildVars, claimVars, skipVars, gcVars>>

CallGetEffectiveConfig(version) ==
    /\ Len(held) < MaxCalls
    /\ LET r == getEffectiveConfigAt(heap, cfg, version)
       IN /\ heap' = r.heap
          /\ held' = Append(held, r.eff)
          /\ ret' = ValueAt(r.heap, r.eff)
    /\ fn' = "getEffectiveConfig"
    /\ args' = [version |-> version]
    /\ SharingFrame

Mutated ==
    /\ fn' = "mutate"
    /\ args' = None
    /\ ret' = None
    /\ SharingFrame

\* A caller writes an element of a list of an effective configuration.
WriteElement(i, field) ==
    /\ i \in 1..Len(held)
    /\ Len(heap[held[i][field]]) > 0
    /\ heap' = [heap EXCEPT ![held[i][field]][1] = "mutated"]
    /\ UNCHANGED held
    /\ Mutated

\* A caller overwrites an entry of the environment of an effective
\* configuration and adds one.
WriteEnv(i) ==
    /\ i \in 1..Len(held)
    /\ heap' = [heap EXCEPT ![held[i].Env] =
                    mergeEnv(@, ("FOO" :> "mutated") @@ ("ADDED" :> "mutated"))]
    /\ UNCHANGED held
    /\ Mutated

\* A caller replaces the script of an effective configuration.
WriteScript(i) ==
    /\ i \in 1..Len(held)
    /\ held' = [held EXCEPT ![i].Script = "mutated"]
    /\ UNCHANGED heap
    /\ Mutated

NextSharing ==
    \/ \E version \in SharingVersions : CallGetEffectiveConfig(version)
    \/ \E i \in 1..MaxCalls, field \in {"SystemDeps", "Patches"} :
         WriteElement(i, field)
    \/ \E i \in 1..MaxCalls : WriteEnv(i)
    \/ \E i \in 1..MaxCalls : WriteScript(i)

SpecSharing == InitSharing /\ [][NextSharing]_vars

\* C25: getEffectiveConfig works on a copy.  After any calls and any writes
\* to the effective configurations they returned, the base configuration's
\* system dependencies, environment, patches, script and overrides are what
\* they were, and a call returns what it returns on the untouched base.
C25_ResolvesOnCopy ==
    /\ ConfigAt(heap, cfg) = cfg
    /\ fn = "getEffectiveConfig" =>
          LET fresh == getEffectiveConfigAt(LoadConfig(cfg), cfg, args.version)
          IN ret = ValueAt(fresh.heap, fresh.eff)

\* Two effective configurations of the same version were handed out; the
\* first had a dependency, a patch, an environment entry and its script
\* overwritten before the second call returned.
C25_Witness ==
    /\ fn = "getEffectiveConfig"
    /\ Len(held) = 2
    /\ Len(cfg.Overrides) > 0
    /\ heap[held[1].SystemDeps][1] = "mutated"
    /\ heap[held[1].Patches][1] = "mutated"
    /\ heap[held[1].Env]["FOO"] = "mutated"
    /\ held[1].Script = "mutated"
    /\ heap[held[2].SystemDeps][1] # "mutated"
    /\ Len(heap[held[2].SystemDeps]) > Len(cfg.SystemDeps)


\* ---------------------------------------------------------------------------
\* A configuration is validated, then an override's match is evaluated for a
\* version, as the override loop of getEffectiveConfig does.
\* ---------------------------------------------------------------------------

\* One override, matched by a specifier of up to MaxClauses drawn clauses.
ScopedInputs ==
    {[config |-> DrawnConfig("https://github.com/test/pkg",
                             VersionsOf(<<Ver120, Ver210>>), <<clauses>>),
      clauses |-> clauses,
      version |-> version] :
        version \in {Ver120, Ver210},
        clauses \in SeqsUpTo([op : DrawnOperators, ver : DrawnVersionTexts],
                             MaxClauses) \ {<<>>}}

InitScoped == Drawn(ScopedInputs)

\* ValidateConfig(cfg), then config.MatchesVersion(version, override.Match).
ValidateThenMatch ==
    Returns("MatchesVersion",
            [validation |-> ValidateConfig(args.config),
             evaluation |-> MatchesVersion(args.version,
                                           args.config.Overrides[1].Match)])

NextScoped == ValidateThenMatch

SpecScoped == InitScoped /\ [][NextScoped]_vars

ScopedCalled == fn = "MatchesVersion" /\ args \in ScopedInputs

\* C26: an override match that ValidateConfig accepted is evaluated by
\* MatchesVersion without error, for every version.
C26_AcceptedMatchEvaluates ==
    ScopedCalled => (ret.validation = None => ~ret.evaluation.err)


\* A clause parses when it begins with one of the seven operators.
ClauseParses(clause) ==
    \E i \in 1..Len(SpecOperators) :
        HasPrefix(TrimSpace(clause.op \o clause.ver), SpecOperators[i])

AllClausesParse(clauses) ==
    \A i \in 1..Len(clauses) : ClauseParses(clauses[i])

\* C27: whether MatchesVersion reports an error is decided by the specifier
\* alone: an error for every version when some clause does not parse, no
\* error for any version when every clause parses.
C27_ErrorBySpecifierOnly ==
    ScopedCalled => (ret.evaluation.err <=> ~AllClausesParse(args.clauses))


\* ---------------------------------------------------------------------------
\* The build invocations of Build's loop for two runtimes of one version.
\* ---------------------------------------------------------------------------

\* What buildForPython hands to cmd.Run: the command and cmd.Env.
Invocation(python, e, environ, order) ==
    [command |-> buildCommand(python, e),
     env |-> buildEnv(environ, e.Env, order, python)]

InvokeEnvMaps == {EmptyMap, "FOO" :> "bar", ("FOO" :> "bar") @@ ("BAZ" :> "qux")}

\* An effective configuration with the default command or a custom script,
\* two distinct runtimes, and the orders in which the two calls range over
\* the env map.
InvokeInputs ==
    {[environ |-> environ,
      effective |-> [SystemDeps |-> <<>>, Env |-> env, Patches |-> <<>>,
                     Script |-> script],
      pythons |-> pythons, orders |-> orders] :
        environ \in DrawnEnvirons,
        env \in InvokeEnvMaps,
        script \in {"", "make wheel"},
        pythons \in {p \in SupportedPythonVersions \X SupportedPythonVersions :
                        p[1] # p[2]},
        orders \in UNION {RangeOrders(e) \X RangeOrders(e) : e \in InvokeEnvMaps}}

InitInvoke ==
    Drawn({i \in InvokeInputs :
              /\ i.orders[1] \in RangeOrders(i.effective.Env)
              /\ i.orders[2] \in RangeOrders(i.effective.Env)})

\* Two rounds of "for _, py := range pythonVersions" up to cmd.Run.
CallBuildForPython ==
    Returns("buildForPython",
            [j \in 1..2 |-> Invocation(args.pythons[j], args.effective,
                                       args.environ, args.orders[j])])

NextInvoke == CallBuildForPython

SpecInvoke == InitInvoke /\ [][NextInvoke]_vars

InvokeCalled == fn = "buildForPython"

\* C28: for one version and effective configuration, the invocations
\* (command and environment) buildForPython starts for two distinct runtimes
\* differ, with the default command and with a custom script.
C28_InvocationsDiffer ==
    InvokeCalled => ret[1] # ret[2]


\* ---------------------------------------------------------------------------
\* findWheel called on a directory of wheels, as TestFindWheel does.
\* ---------------------------------------------------------------------------

\* A platform tag other than the default.
OtherPlatform == <<"l", "i", "n", "u", "x", "_", "x", "8", "6", "_", "6", "4">>

\* The wheel findWheel is asked for.
Wanted(a) == WheelFilename(a.name, a.version, a.python, DefaultPlatform)

\* What else the directory may hold: the wheel of an earlier version, of the
\* same version for another platform, and of the same version for another
\* runtime.
OtherWheels(name, version, python) ==
    {WheelFilename(name, Ver090, python, DefaultPlatform),
     WheelFilename(name, version, python, OtherPlatform),
     WheelFilename(name, version, IF python = Py310 THEN Py311 ELSE Py310,
                   DefaultPlatform)}

FindInputs ==
    {[name |-> name, version |-> version, python |-> python,
      files |-> (IF present
                 THEN {WheelFilename(name, version, python, DefaultPlatform)}
                 ELSE {}) \cup others] :
        name \in {PackageName, ZopeInterface},
        version \in {Ver100, Ver100Beta1},
        python \in {Py310, Py311},
        present \in BOOLEAN,
        others \in UNION {SUBSET OtherWheels(n, v, p) :
                            n \in {PackageName, ZopeInterface},
                            v \in {Ver100, Ver100Beta1},
                            p \in {Py310, Py311}}}

InitFind ==
    Drawn({i \in FindInputs :
              i.files \ {Wanted(i)} \subseteq OtherWheels(i.name, i.version, i.python)})

CallFindWheel ==
    Returns("findWheel", findWheel(args.files, args.version, args.python))

NextFind == CallFindWheel

SpecFind == InitFind /\ [][NextFind]_vars

FindCalled == fn = "findWheel"

\* A file name that carries the runtime's tag.
CarriesTag(file, python) ==
    Contains(file, <<"-">> \o PythonCPVersion(python) \o <<"-">>)

\* C29: when the directory holds the file WheelFilename names for the
\* version and runtime, findWheel returns that file, whatever else is there;
\* when no file carries the runtime's tag, findWheel returns an error.
C29_FindsNamedWheel ==
    FindCalled =>
        /\ Wanted(args) \in args.files =>
              ret.err = None /\ ret.path = Wanted(args)
        /\ (\A f \in args.files : ~CarriesTag(f, args.python)) =>
              ret.err # None


\* ---------------------------------------------------------------------------
\* compareVersions as an order: three versions compared pairwise, and the
\* first matched against the comparison clauses on the second.
\* ---------------------------------------------------------------------------

\* The versions of TestCompareVersions, versions with a suffix, and
\* single-segment versions whose text and numeric order differ.
OrderVersions ==
    TestedVersions \cup SuffixedVersions
        \cup {<<"9">>, <<"1", "0">>, Ver20, <<"2", ".", "0", ".", "0">>}

OrderInputs == [a : OrderVersions, b : OrderVersions, c : OrderVersions]

InitOrder == Drawn(OrderInputs)

\* matchSingleSpec(version, op + S)
ClauseMatches(version, op, S) == MatchesVersion(version, op \o S).matches

CallComparePairwise ==
    Returns("compareVersions",
            [aa |-> compareVersions(args.a, args.a),
             ab |-> compareVersions(args.a, args.b),
             ba |-> compareVersions(args.b, args.a),
             bc |-> compareVersions(args.b, args.c),
             ac |-> compareVersions(args.a, args.c),
             matched |-> {op \in ComparisonOps :
                             ClauseMatches(args.a, op, args.b)}])

NextOrder == CallComparePairwise

SpecOrder == InitOrder /\ [][NextOrder]_vars

OrderCalled == fn = "compareVersions" /\ DOMAIN args = {"a", "b", "c"}

\* C30: compareVersions is a total preorder -- reflexive, antisymmetric in
\* sign, transitive -- and so exactly one of <S, ==S, >S matches a version,
\* !=S matches iff ==S does not, and <=S (>=S) matches iff <S (>S) or ==S does.
C30_TotalPreorder ==
    OrderCalled =>
        /\ ret.aa = 0
        /\ ret.ab \in {-1, 0, 1}
        /\ ret.ab = 0 - ret.ba
        /\ (ret.ab <= 0 /\ ret.bc <= 0) => ret.ac <= 0
        /\ (ret.ab <= 0 /\ ret.bc <= 0 /\ ret.ac = 0) => (ret.ab = 0 /\ ret.bc = 0)
        /\ Cardinality(ret.matched \cap {OpLt, OpEq, OpGt}) = 1
        /\ OpNe \in ret.matched <=> OpEq \notin ret.matched
        /\ OpLe \in ret.matched <=> (OpLt \in ret.matched \/ OpEq \in ret.matched)
        /\ OpGe \in ret.matched <=> (OpGt \in ret.matched \/ OpEq \in ret.matched)

\* 1.0 and 1.0.0 compare equal and both are below 1.0.1: two versions that
\* differ as text sit at one place in the order.
C30_Witness ==
    /\ OrderCalled
    /\ args.a = Ver10
    /\ args.b = Ver100
    /\ args.c = <<"1", ".", "0", ".", "1">>
    /\ ret.ab = 0
    /\ ret.bc = -1
    /\ ret.ac = -1
    /\ ret.matched = {OpEq, OpLe, OpGe}

====
